---- MODULE Spec2Model ----
(***************************************************************************)
(* Model of the retrieval-and-query pipeline of kazaneza/openchat:         *)
(*   - ConversationService (services/conversation_service.py): the         *)
(*     conversation store with its in-memory cache and file store;         *)
(*   - RetrievalService (services/retrieval_service.py): threshold         *)
(*     filtering and diversification of a scored result list;              *)
(*   - QueryService.process_query (services/query_service.py): the         *)
(*     orchestrator, one action per statement group, with its two          *)
(*     exception handlers;                                                 *)
(*   - QueryUnderstandingService.analyze_query and                         *)
(*     ResponseQualityService.calculate_confidence_indicators, as pure     *)
(*     functions of their arguments and the clock.                         *)
(* Scores are exact fractions of Unit (1.0 = Unit); floating-point         *)
(* rounding is not modelled.                                               *)
(***************************************************************************)
EXTENDS Integers, Sequences, FiniteSets, TLC

(***************************************************************************)
(* Bounds of the model                                                     *)
(***************************************************************************)
\* numbers of messages of the conversation found on disk at start-up: either
\* side of the pronoun rule (2 messages), of the summary trigger (15) and of
\* the history limit (20)
HistoryLengths == {0, 1, 2, 15, 16, 21}
\* number of conversation ids: 1 is on disk at start-up, the others are
\* the ids uuid4 hands to create_conversation, in order
MaxConversations == 2
\* largest number of messages conversation 1 holds when two threads append
MaxStored == 2
\* longest result list handed to the pure retrieval functions
MaxResults == 4
\* largest max_per_document handed to diversify_results
MaxPerDocArg == 3

\* analyze_query: messages of history, clock readings, calls compared
MaxAnalysisHistory == 3

MaxClock == 2

MaxAnalyses == 2

\* rerank_results: results in the list
MaxReranked == 2

\* filter_by_dynamic_threshold: results in a list of boundary scores
MaxBoundaryResults == 2

\* calculate_confidence_indicators: source_count
MaxSources == 6

\* get_sliding_window_context: messages in the history
MaxWindowMessages == 3

(***************************************************************************)
(* Program constants                                                       *)
(***************************************************************************)
\* score 1.0; every score of the model is an integer number of 1/Unit
Unit == 14400
\* get_messages(conversation_id, limit=20)
HistoryLimit == 20
\* ConversationContextService.summary_trigger_length
\* ConversationContextService.max_context_tokens
max_context_tokens == 4000

summary_trigger_length == 15
\* summarize_conversation returns "" below this many messages
SummaryMinMessages == 5
\* diversify_results(results, max_per_document=3)
DefaultMaxPerDocument == 3
\* filter_by_dynamic_threshold keeps at least this many results
MinKept == 3
\* _fallback_keyword_search keeps relevant_chunks[:3]
FallbackTop == 3

None == "None"

\* None where a conversation id is expected, a dict is expected
NoId == 0
NoDict == [none |-> TRUE]

Min2(a, b) == IF a <= b THEN a ELSE b
Max2(a, b) == IF a >= b THEN a ELSE b

RECURSIVE SumSeq(_)
SumSeq(s) == IF s = <<>> THEN 0 ELSE Head(s) + SumSeq(Tail(s))

RECURSIVE MaxSeq(_)
MaxSeq(s) == IF Len(s) = 1 THEN s[1] ELSE Max2(Head(s), MaxSeq(Tail(s)))

\* python: s[:n] for n >= 0
Take(s, n) == SubSeq(s, 1, Min2(n, Len(s)))

(***************************************************************************)
(* RetrievalService: pure functions on a scored result list.               *)
(* A result is a record with document_id, chunk_index and similarity.      *)
(***************************************************************************)
DocIds == {"d1", "d2"}

\* a document the vector store still holds chunks of, no longer in the
\* organization's document list
StaleDocId == "d3"

\* similarity thresholds of calculate_adaptive_parameters, in 1/Unit:
\* 0.35, 0.40, 0.50 and each raised by 0.1 for a specific query
BaseThresholds == {5040, 5760, 7200, 6480, 8640}

ComplexityLevels == {"high", "medium", "low"}

\* threshold of filter_by_dynamic_threshold as a fraction num/den
Scores(results) == [i \in 1..Len(results) |-> results[i].similarity]

DynamicThresholdInclusive(results, base_threshold, query_analysis) ==
    LET scores == Scores(results)
        n == Len(results)
        max_score == MaxSeq(scores)
        total == SumSeq(scores)
        t10n == IF max_score * 10 >= 8 * Unit
                THEN Max2(base_threshold * 10 * n, 8 * total)
                ELSE IF max_score * 10 >= 6 * Unit
                     THEN base_threshold * 10 * n
                     ELSE Min2(base_threshold * 10 * n, 7 * max_score * n)
        factor == IF query_analysis.complexity_level = "high" THEN 9
                  ELSE IF query_analysis.complexity_level = "low"
                          /\ query_analysis.is_specific THEN 11
                  ELSE 10
    IN [num |-> t10n * factor, den |-> 100 * n]

DynamicThreshold(results, base_threshold, query_analysis) ==
    LET scores == Scores(results)
        n == Len(results)
        max_score == MaxSeq(scores)
        total == SumSeq(scores)
        \* threshold * 10 * n
        t10n == IF max_score * 10 > 8 * Unit
                THEN Max2(base_threshold * 10 * n, 8 * total)
                ELSE IF max_score * 10 > 6 * Unit
                     THEN base_threshold * 10 * n
                     ELSE Min2(base_threshold * 10 * n, 7 * max_score * n)
        factor == IF query_analysis.complexity_level = "high" THEN 9
                  ELSE IF query_analysis.complexity_level = "low"
                          /\ query_analysis.is_specific THEN 11
                  ELSE 10
    IN [num |-> t10n * factor, den |-> 100 * n]

ReachesThreshold(r, thr) == r.similarity * thr.den >= thr.num

FilterByDynamicThresholdNoFloor(results, base_threshold, query_analysis) ==
    IF results = <<>> THEN results
    ELSE LET thr == DynamicThreshold(results, base_threshold, query_analysis)
             Keep(r) == ReachesThreshold(r, thr)
         IN SelectSeq(results, Keep)

FilterByDynamicThreshold(results, base_threshold, query_analysis) ==
    IF results = <<>> THEN results
    ELSE LET thr == DynamicThreshold(results, base_threshold, query_analysis)
             Keep(r) == ReachesThreshold(r, thr)
             filtered_results == SelectSeq(results, Keep)
         IN IF Len(filtered_results) < MinKept /\ Len(results) >= MinKept
            THEN Take(results, MinKept)
            ELSE filtered_results

RECURSIVE DiversifyFrom(_, _, _, _)
DiversifyFrom(results, i, document_counts, max_per_document) ==
    IF i > Len(results) THEN <<>>
    ELSE LET doc_id == results[i].document_id
             current_count == document_counts[doc_id]
         IN IF current_count < max_per_document
            THEN <<results[i]>> \o
                 DiversifyFrom(results, i + 1,
                               [document_counts EXCEPT ![doc_id] = current_count + 1],
                               max_per_document)
            ELSE DiversifyFrom(results, i + 1, document_counts, max_per_document)

DiversifyResultsOffByOne(results, max_per_document) ==
    DiversifyFrom(results, 1, [d \in {results[k].document_id : k \in 1..Len(results)} |-> 0],
                  max_per_document + 1)

DiversifyResults(results, max_per_document) ==
    DiversifyFrom(results, 1, [d \in {results[k].document_id : k \in 1..Len(results)} |-> 0],
                  max_per_document)

(***************************************************************************)
(* ConversationService: conversations are dict objects; the cache maps an  *)
(* id to the object itself (get_conversation returns it by reference) and  *)
(* the file store holds the copy written by the last successful save.      *)
(***************************************************************************)
ConvIds == 1..MaxConversations

\* int(len(content.split()) * 1.3)
TokenCount(words) == (words * 13) \div 10

NewMessage(id, role, words, metadata) ==
    [id |-> id, role |-> role, words |-> words, metadata |-> metadata,
     token_count |-> TokenCount(words)]

NoMetadata == [kind |-> "none"]

\* the conversation dict create_conversation builds
NewConversation == [messages |-> <<>>, message_count |-> 0, total_tokens |-> 0]

\* add_message, lines 239-243, run without interruption
AppendMessageReplacing(conversation, message) ==
    [messages |-> <<message>>,
     message_count |-> 1,
     total_tokens |-> conversation.total_tokens + message.token_count]

AppendMessage(conversation, message) ==
    [messages |-> Append(conversation.messages, message),
     message_count |-> Len(conversation.messages) + 1,
     total_tokens |-> conversation.total_tokens + message.token_count]

\* python: messages[-max_messages:] (for max_messages = 0 the whole list)
LastMessages(messages, max_messages) ==
    IF max_messages = 0 \/ max_messages >= Len(messages) THEN messages
    ELSE SubSeq(messages, Len(messages) - max_messages + 1, Len(messages))

GetConversationContextOldest(conversation, max_messages) ==
    IF conversation = NoDict THEN <<>>
    ELSE Take(conversation.messages, max_messages)

\* get_conversation_context on the result of get_conversation
GetConversationContext(conversation, max_messages) ==
    IF conversation = NoDict THEN <<>>
    ELSE IF Len(conversation.messages) > max_messages
         THEN LastMessages(conversation.messages, max_messages)
         ELSE conversation.messages

\* a conversation of n messages as an earlier run left it on disk
RECURSIVE StoredConversation(_)
StoredConversation(n) ==
    IF n = 0 THEN NewConversation
    ELSE AppendMessage(StoredConversation(n - 1),
            NewMessage(<<0, n>>, IF n % 2 = 1 THEN "user" ELSE "assistant",
                       2, NoMetadata))

(***************************************************************************)
(* QueryUnderstandingService and ConversationContextService.  A query is   *)
(* the record of what the services' patterns find in it: has_pronouns,     *)
(* has_vague_terms (ambiguity_patterns), its primary intent                *)
(* (intent_patterns), its number of words and of '?', whether it holds     *)
(* both ' and ' and ' or ', and whether it holds 'versus'.                 *)
(***************************************************************************)
Intents == {"general_inquiry", "opinion_recommendation", "factual_lookup"}

\* a query as the patterns of the service see it; it starts with a question
\* word and holds no continuation phrase
AllQueries ==
    [has_pronouns : BOOLEAN, intent : Intents, words : {2, 6},
     has_vague_terms : BOOLEAN, question_marks : {1, 2}, has_and_or : BOOLEAN,
     mentions_versus : BOOLEAN]

\* the queries process_query is given: no vague term, one '?', no and/or,
\* no 'versus'
Queries ==
    {q \in AllQueries : /\ ~q.has_vague_terms
                        /\ q.question_marks = 1
                        /\ ~q.has_and_or
                        /\ ~q.mentions_versus}

Ambiguity(type, severity) == [type |-> type, severity |-> severity]

AmbiguitiesBriefIsHigh(query, conversation_history) ==
    (IF query.has_vague_terms THEN <<Ambiguity("vague_terms", "medium")>> ELSE <<>>)
    \o (IF query.has_pronouns /\ Len(conversation_history) < 2
        THEN <<Ambiguity("unclear_reference", "high")>> ELSE <<>>)
    \o (IF query.words < 3 THEN <<Ambiguity("too_brief", "high")>> ELSE <<>>)

\* detect_ambiguity, lines 200-250: the findings, in the order they are added
Ambiguities(query, conversation_history) ==
    (IF query.has_vague_terms THEN <<Ambiguity("vague_terms", "medium")>> ELSE <<>>)
    \o (IF query.has_pronouns /\ Len(conversation_history) < 2
        THEN <<Ambiguity("unclear_reference", "high")>> ELSE <<>>)
    \o (IF query.words < 3 THEN <<Ambiguity("too_brief", "medium")>> ELSE <<>>)
    \o (IF query.question_marks > 1
        THEN <<Ambiguity("multiple_questions", "low")>> ELSE <<>>)
    \o (IF query.has_and_or THEN <<Ambiguity("complex_logic", "medium")>> ELSE <<>>)

\* detect_ambiguity, lines 252-262, on the findings
AmbiguityInfo(ambiguities) ==
    LET needs_clarification ==
            /\ Len(ambiguities) > 0
            /\ \E i \in 1..Len(ambiguities) : ambiguities[i].severity = "high"
    IN [is_ambiguous |-> Len(ambiguities) > 0,
        needs_clarification |-> needs_clarification,
        ambiguities |-> ambiguities,
        severity |-> IF needs_clarification THEN "high"
                     ELSE IF ambiguities # <<>> THEN "medium" ELSE "low"]

DetectAmbiguityAnyPronoun(query, conversation_history) ==
    AmbiguityInfo(
        (IF query.has_pronouns THEN <<Ambiguity("unclear_reference", "high")>> ELSE <<>>)
        \o (IF query.words < 3 THEN <<Ambiguity("too_brief", "medium")>> ELSE <<>>))

\* detect_ambiguity
DetectAmbiguity(query, conversation_history) ==
    AmbiguityInfo(Ambiguities(query, conversation_history))

\* what detect_follow_up reads in a query: a continuation phrase
\* (follow_up_indicators), a pronoun (ambiguity_patterns), the number of
\* words, a question word at the start, the number of '?'
FollowUpQueries ==
    [has_follow_up_words : BOOLEAN, has_pronouns : BOOLEAN, words : {2, 4, 5, 6},
     starts_with_question : BOOLEAN, question_marks : {0, 1}]

DetectFollowUpInfoExplicitFirst(query, conversation_history) ==
    IF conversation_history = <<>>
    THEN [is_follow_up |-> FALSE, confidence |-> 0, reference_type |-> None]
    ELSE LET is_short == query.words < 5
             is_incomplete == ~query.starts_with_question /\ query.question_marks > 0
             is_follow_up == \/ query.has_follow_up_words
                             \/ (query.has_pronouns /\ is_short)
                             \/ is_incomplete
         IN [is_follow_up |-> is_follow_up,
             confidence |-> IF query.has_follow_up_words THEN (9 * Unit) \div 10
                            ELSE IF query.has_pronouns /\ is_short
                                 THEN (8 * Unit) \div 10
                            ELSE IF is_incomplete THEN (6 * Unit) \div 10
                            ELSE 0,
             reference_type |->
                 IF ~is_follow_up THEN None
                 ELSE IF query.has_follow_up_words THEN "explicit_continuation"
                 ELSE IF query.has_pronouns THEN "pronoun_reference"
                 ELSE "implicit_continuation",
             has_pronouns |-> query.has_pronouns,
             recent_context |-> LastMessages(conversation_history, 3)]

\* detect_follow_up; confidence in 1/Unit
DetectFollowUpInfo(query, conversation_history) ==
    IF conversation_history = <<>>
    THEN [is_follow_up |-> FALSE, confidence |-> 0, reference_type |-> None]
    ELSE LET is_short == query.words < 5
             is_incomplete == ~query.starts_with_question /\ query.question_marks > 0
             is_follow_up == \/ query.has_follow_up_words
                             \/ (query.has_pronouns /\ is_short)
                             \/ is_incomplete
         IN [is_follow_up |-> is_follow_up,
             confidence |-> IF query.has_follow_up_words THEN (9 * Unit) \div 10
                            ELSE IF query.has_pronouns /\ is_short
                                 THEN (8 * Unit) \div 10
                            ELSE IF is_incomplete THEN (6 * Unit) \div 10
                            ELSE 0,
             reference_type |->
                 IF ~is_follow_up THEN None
                 ELSE IF query.has_pronouns THEN "pronoun_reference"
                 ELSE IF query.has_follow_up_words THEN "explicit_continuation"
                 ELSE IF is_incomplete THEN "implicit_continuation"
                 ELSE None,
             has_pronouns |-> query.has_pronouns,
             recent_context |-> LastMessages(conversation_history, 3)]

\* detect_follow_up on a query of AllQueries: it starts with a question word
\* and holds no continuation phrase
DetectFollowUp(query, conversation_history) ==
    DetectFollowUpInfo([has_follow_up_words |-> FALSE,
                        has_pronouns |-> query.has_pronouns,
                        words |-> query.words,
                        starts_with_question |-> TRUE,
                        question_marks |-> query.question_marks],
                       conversation_history).is_follow_up

\* generate_clarification_prompt: the prompt of the first finding that has one
RECURSIVE PromptOf(_)
PromptOf(ambiguities) ==
    IF ambiguities = <<>> THEN "rephrase"
    ELSE IF Head(ambiguities).type \in {"unclear_reference", "vague_terms", "too_brief"}
         THEN Head(ambiguities).type
         ELSE PromptOf(Tail(ambiguities))

GenerateClarificationPrompt(ambiguity_info) ==
    IF ~ambiguity_info.needs_clarification THEN None
    ELSE PromptOf(ambiguity_info.ambiguities)

\* analyze_query, the fields process_query reads
AnalyzeQuery(query, conversation_history) ==
    LET ambiguity == DetectAmbiguity(query, conversation_history)
    IN [primary_intent |-> query.intent,
        is_follow_up |-> DetectFollowUp(query, conversation_history),
        is_ambiguous |-> ambiguity.is_ambiguous,
        needs_clarification |-> ambiguity.needs_clarification,
        clarification_prompt |-> GenerateClarificationPrompt(ambiguity)]

\* detect_multi_document_query
DetectMultiDocumentQuery(query, available_documents) ==
    query.has_and_or \/ (query.mentions_versus /\ available_documents > 1)

AnalyzeQueryAtRemembering(query, conversation_history, available_documents, now) ==
    LET ambiguity == DetectAmbiguity(query, conversation_history)
    IN [original_query |-> query,
        intent |-> [primary_intent |-> query.intent],
        multi_document |->
            [is_multi_document |-> DetectMultiDocumentQuery(query, available_documents)],
        follow_up |->
            [is_follow_up |-> DetectFollowUp(query, conversation_history) \/ now > 0],
        ambiguity |-> ambiguity,
        needs_clarification |-> ambiguity.needs_clarification,
        clarification_prompt |-> GenerateClarificationPrompt(ambiguity),
        timestamp |-> now]

\* analyze_query, the whole record; now is what datetime.now() reads
AnalyzeQueryAt(query, conversation_history, available_documents, now) ==
    LET ambiguity == DetectAmbiguity(query, conversation_history)
    IN [original_query |-> query,
        intent |-> [primary_intent |-> query.intent],
        multi_document |->
            [is_multi_document |-> DetectMultiDocumentQuery(query, available_documents)],
        follow_up |-> [is_follow_up |-> DetectFollowUp(query, conversation_history)],
        ambiguity |-> ambiguity,
        needs_clarification |-> ambiguity.needs_clarification,
        clarification_prompt |-> GenerateClarificationPrompt(ambiguity),
        timestamp |-> now]

\* get_query_metadata
GetQueryMetadata(analysis) ==
    [kind |-> "query_understanding",
     primary_intent |-> analysis.primary_intent,
     is_follow_up |-> analysis.is_follow_up,
     needs_clarification |-> analysis.needs_clarification]

\* build_structured_context: needs_summarization
NeedsSummarization(messages) == Len(messages) > summary_trigger_length

\* summarize_conversation asks the LLM only from SummaryMinMessages on
SummaryUsesLLM(messages) == Len(messages) >= SummaryMinMessages

\* _estimate_tokens: len(text) // 4
EstimateTokens(chars) == chars \div 4

\* get_sliding_window_context, lines 243-251: the place in messages of the
\* oldest message selected, walking down from place k with estimated tokens
RECURSIVE WindowStart(_, _, _, _)
WindowStart(messages, k, estimated_tokens, max_tokens) ==
    IF k = 0 THEN 1
    ELSE LET msg_tokens == EstimateTokens(messages[k].chars)
         IN IF estimated_tokens + msg_tokens > max_tokens THEN k + 1
            ELSE WindowStart(messages, k - 1, estimated_tokens + msg_tokens,
                             max_tokens)

\* the max_tokens argument: an int, or None for max_context_tokens
BudgetOf(max_tokens) ==
    IF max_tokens.given THEN max_tokens.value ELSE max_context_tokens

GetSlidingWindowContextIgnoringQuery(messages, query_chars, max_tokens) ==
    SubSeq(messages,
           WindowStart(messages, Len(messages), 0, BudgetOf(max_tokens)),
           Len(messages))

\* get_sliding_window_context; a message is its place in the history and the
\* length of its content
GetSlidingWindowContext(messages, query_chars, max_tokens) ==
    SubSeq(messages,
           WindowStart(messages, Len(messages), EstimateTokens(query_chars),
                       BudgetOf(max_tokens)),
           Len(messages))

(***************************************************************************)
(* Documents of the organization, the query's words and the vector store.  *)
(* A chunk text is the record of what the pipeline reads in it: its set of *)
(* lower-cased words, its number of words and whether it holds             *)
(* comparative vocabulary.                                                 *)
(***************************************************************************)
StopWords == {"the"}

\* python: qw in cw, on the words of the model
IsSubstring(qw, cw) == qw = cw \/ (qw = "pay" /\ cw = "payment")

ChunkText(words, wc) == [words |-> words, wc |-> wc, comparative |-> FALSE]

OrgDocuments ==
    << [id |-> "d1", filename |-> "refunds.pdf",
        chunks |-> << [text |-> ChunkText({"refund"}, 60), pages |-> {1}],
                      [text |-> ChunkText({"refund"}, 10), pages |-> {2}],
                      [text |-> ChunkText({"refund", "days"}, 100), pages |-> {2}],
                      [text |-> ChunkText({"refund", "policy"}, 400), pages |-> {3}] >>],
       [id |-> "d2", filename |-> "payments.pdf",
        chunks |-> << [text |-> ChunkText({"payment"}, 60), pages |-> {1}] >>],
       [id |-> "d4", filename |-> "notes.txt",
        chunks |-> << [text |-> ChunkText({"note"}, 5), pages |-> {}],
                      [text |-> ChunkText({"memo"}, 5), pages |-> {}],
                      [text |-> ChunkText({"todo"}, 5), pages |-> {}] >>] >>

DocumentLists == {<<>>, OrgDocuments}

QueryWordSets == {{"refund", "policy"}, {"the", "pay"}, {"hello"}}

\* VectorService.add_document_chunks names a chunk "<document_id>_chunk_<i>"
VectorChunkId(document_id, i) ==
    [format |-> "<document_id>_chunk_<i>", document_id |-> document_id, i |-> i]

\* _handle_document_query names a candidate "<document_id>_<i>"
CandidateChunkId(document_id, i) ==
    [format |-> "<document_id>_<i>", document_id |-> document_id, i |-> i]

DocumentById(documents, id) ==
    documents[CHOOSE k \in 1..Len(documents) : documents[k].id = id]

\* a hit of search_similar_chunks on chunk i (from 0) of a document
Hit(document_id, i, similarity) ==
    [text |-> DocumentById(OrgDocuments, document_id).chunks[i + 1].text,
     document_id |-> document_id, chunk_index |-> i,
     chunk_id |-> VectorChunkId(document_id, i),
     pages |-> {}, similarity |-> similarity]

\* a hit on a chunk stored under organization_id for a document that is not
\* in the documents passed to the query
StaleHit(similarity) ==
    [text |-> ChunkText({"refund"}, 60),
     document_id |-> StaleDocId, chunk_index |-> 0,
     chunk_id |-> VectorChunkId(StaleDocId, 0),
     pages |-> {}, similarity |-> similarity]

\* what the vector store may answer: nothing, five good hits, one poor hit,
\* a hit on a stale chunk, three hits on short chunks at the least similarity
\* search_similar_chunks lets through (0.1)
SemanticResultChoices ==
    { <<>>,
      << StaleHit(12960) >>,
      << Hit("d1", 0, 12960), Hit("d1", 1, 12240), Hit("d1", 2, 11520),
         Hit("d1", 3, 10800), Hit("d2", 0, 10080) >>,
      << Hit("d1", 1, 2160) >>,
      << Hit("d4", 0, 1440), Hit("d4", 1, 1440), Hit("d4", 2, 1440) >> }

\* the all_chunks list of _handle_document_query
RECURSIVE AllChunksOfDoc(_, _)
AllChunksOfDoc(doc, i) ==
    IF i > Len(doc.chunks) THEN <<>>
    ELSE << [text |-> doc.chunks[i].text, document_id |-> doc.id,
             chunk_index |-> i - 1, chunk_id |-> CandidateChunkId(doc.id, i - 1),
             pages |-> doc.chunks[i].pages] >> \o AllChunksOfDoc(doc, i + 1)

RECURSIVE AllChunks(_)
AllChunks(documents) ==
    IF documents = <<>> THEN <<>>
    ELSE AllChunksOfDoc(Head(documents), 1) \o AllChunks(Tail(documents))

(***************************************************************************)
(* RetrievalService on the orchestrator's data                             *)
(***************************************************************************)
\* analyze_query_complexity on the flags it derives from the query
AnalyzeQueryComplexity(f) ==
    LET complexity_score ==
            (IF f.is_question THEN 1 ELSE 0) + (IF f.is_comparison THEN 2 ELSE 0)
            + (IF f.is_multipart THEN 2 ELSE 0) + (IF f.is_long THEN 1 ELSE 0)
            + (IF ~f.is_specific THEN 1 ELSE 0)
    IN [complexity_level |-> IF complexity_score >= 4 THEN "high"
                             ELSE IF complexity_score >= 2 THEN "medium"
                             ELSE "low",
        is_comparison |-> f.is_comparison,
        is_multipart |-> f.is_multipart,
        is_specific |-> f.is_specific]

\* the queries the orchestrator is given, by their complexity flags
ComplexityFlags ==
    { [is_question |-> TRUE, is_comparison |-> FALSE, is_multipart |-> FALSE,
       is_long |-> FALSE, is_specific |-> TRUE],
      [is_question |-> TRUE, is_comparison |-> FALSE, is_multipart |-> FALSE,
       is_long |-> FALSE, is_specific |-> FALSE],
      [is_question |-> TRUE, is_comparison |-> TRUE, is_multipart |-> TRUE,
       is_long |-> TRUE, is_specific |-> FALSE] }

CalculateAdaptiveParametersUncapped(query_analysis) ==
    LET level == query_analysis.complexity_level
        top_k0 == IF level = "high" THEN 15 ELSE IF level = "medium" THEN 8 ELSE 5
        top_k1 == IF query_analysis.is_comparison THEN top_k0 + 3 ELSE top_k0
        top_k2 == IF query_analysis.is_multipart THEN top_k1 + 2 ELSE top_k1
        threshold == IF level = "high" THEN 5040
                     ELSE IF level = "medium" THEN 5760 ELSE 7200
    IN [top_k |-> top_k2,
        similarity_threshold |->
            IF query_analysis.is_specific THEN threshold + 1440 ELSE threshold,
        keyword_weight |-> IF level = "high" THEN 6
                           ELSE IF level = "medium" THEN 5 ELSE 4]

\* calculate_adaptive_parameters; keyword_weight in twentieths
CalculateAdaptiveParameters(query_analysis) ==
    LET level == query_analysis.complexity_level
        top_k0 == IF level = "high" THEN 15 ELSE IF level = "medium" THEN 8 ELSE 5
        top_k1 == IF query_analysis.is_comparison THEN Min2(top_k0 + 3, 15) ELSE top_k0
        top_k2 == IF query_analysis.is_multipart THEN Min2(top_k1 + 2, 15) ELSE top_k1
        threshold == IF level = "high" THEN 5040
                     ELSE IF level = "medium" THEN 5760 ELSE 7200
    IN [top_k |-> top_k2,
        similarity_threshold |->
            IF query_analysis.is_specific THEN threshold + 1440 ELSE threshold,
        keyword_weight |-> IF level = "high" THEN 6
                           ELSE IF level = "medium" THEN 5 ELSE 4]

\* keyword_search: the keyword_score of one chunk
KeywordScore(query_words, chunk) ==
    LET important_query_words == query_words \ StopWords
        chunk_words == chunk.text.words
        InText(qw) == \E cw \in chunk_words : IsSubstring(qw, cw)
        exact_matches == Cardinality(important_query_words \cap chunk_words)
        partial_matches == Cardinality({qw \in important_query_words : InText(qw)})
        phrase_matches == Cardinality({qw \in query_words : InText(qw)})
        keyword_score ==
            IF Cardinality(important_query_words) > 0
            THEN ((4 * exact_matches + 2 * partial_matches + phrase_matches) * Unit)
                 \div (6 * Cardinality(important_query_words))
            ELSE (phrase_matches * Unit) \div Max2(Cardinality(query_words), 1)
    IN Min2(keyword_score, Unit)

HybridScoreAdditive(keyword_weight, semantic_score, keyword_score) ==
    (20 * semantic_score + keyword_weight * keyword_score) \div 20

\* hybrid_search, line 164; keyword_weight in twentieths
HybridScore(keyword_weight, semantic_score, keyword_score) ==
    ((20 - keyword_weight) * semantic_score + keyword_weight * keyword_score) \div 20

\* hybrid_search
HybridSearch(semantic_results, query_words, all_chunks, keyword_weight) ==
    LET MapGet(chunk_id) ==
            IF \E k \in 1..Len(all_chunks) : all_chunks[k].chunk_id = chunk_id
            THEN KeywordScore(query_words,
                    all_chunks[CHOOSE k \in 1..Len(all_chunks) :
                                    all_chunks[k].chunk_id = chunk_id])
            ELSE 0
        Scored(chunk) ==
            LET keyword_score == MapGet(chunk.chunk_id)
                hybrid_score == HybridScore(keyword_weight, chunk.similarity,
                                            keyword_score)
            IN [text |-> chunk.text, document_id |-> chunk.document_id,
                chunk_index |-> chunk.chunk_index, chunk_id |-> chunk.chunk_id,
                pages |-> chunk.pages, keyword_score |-> keyword_score,
                semantic_score |-> chunk.similarity,
                hybrid_score |-> hybrid_score, similarity |-> hybrid_score]
        semantic_chunk_ids ==
            {semantic_results[k].chunk_id : k \in 1..Len(semantic_results)}
        Injected(chunk) ==
            /\ chunk.chunk_id \notin semantic_chunk_ids
            /\ KeywordScore(query_words, chunk) * 10 >= 6 * Unit
        Added(chunk) ==
            LET keyword_score == KeywordScore(query_words, chunk)
                hybrid_score == (keyword_weight * keyword_score) \div 20
            IN [text |-> chunk.text, document_id |-> chunk.document_id,
                chunk_index |-> chunk.chunk_index, chunk_id |-> chunk.chunk_id,
                pages |-> chunk.pages, keyword_score |-> keyword_score,
                semantic_score |-> 0,
                hybrid_score |-> hybrid_score, similarity |-> hybrid_score]
        added == SelectSeq(all_chunks, Injected)
    IN [k \in 1..Len(semantic_results) |-> Scored(semantic_results[k])]
       \o [k \in 1..Len(added) |-> Added(added[k])]

\* list.sort(key=final_score, reverse=True): stable, equal scores keep their order
RECURSIVE InsertByScore(_, _)
InsertByScore(sorted, x) ==
    IF sorted = <<>> THEN <<x>>
    ELSE IF Head(sorted).similarity >= x.similarity
         THEN <<Head(sorted)>> \o InsertByScore(Tail(sorted), x)
         ELSE <<x>> \o sorted

RECURSIVE SortByScore(_)
SortByScore(results) ==
    IF results = <<>> THEN <<>>
    ELSE InsertByScore(SortByScore(SubSeq(results, 1, Len(results) - 1)),
                       results[Len(results)])

\* rerank_results, lines 192-224: final_score of one result
FinalScore(r, query_analysis) ==
    LET page_boost == IF 1 \in r.pages THEN 720 ELSE 0
        text_length == r.text.wc
        length_boost0 == IF text_length >= 50 /\ text_length <= 300
                         THEN 432 ELSE 0
        length_boost1 == IF text_length < 20 THEN -1440 ELSE length_boost0
        length_boost2 == IF query_analysis.is_comparison /\ r.text.comparative
                         THEN length_boost1 + 720 ELSE length_boost1
    IN Min2(r.similarity + page_boost + length_boost2, Unit)

\* result['final_score'] = ...; result['similarity'] = result['final_score']
WithFinalScore(r, final_score) ==
    [f \in DOMAIN r \cup {"final_score"} |->
        IF f \in {"final_score", "similarity"} THEN final_score ELSE r[f]]

RerankResultsUnsorted(results, query_analysis) ==
    [k \in 1..Len(results) |->
        WithFinalScore(results[k], FinalScore(results[k], query_analysis))]

\* rerank_results
RerankResults(results, query_analysis) ==
    SortByScore([k \in 1..Len(results) |->
        WithFinalScore(results[k], FinalScore(results[k], query_analysis))])

\* round(similarity, 2), in hundredths
Round2(x) == (x * 200 + Unit) \div (2 * Unit)

\* _extract_sources: one source per document, from its first chunk
RECURSIVE ExtractSourcesFrom(_, _)
ExtractSourcesFrom(similar_chunks, seen_docs) ==
    IF similar_chunks = <<>> THEN <<>>
    ELSE LET chunk == Head(similar_chunks)
         IN IF chunk.document_id \notin seen_docs
            THEN << [document_id |-> chunk.document_id, pages |-> chunk.pages,
                     similarity |-> Round2(chunk.similarity)] >>
                 \o ExtractSourcesFrom(Tail(similar_chunks),
                                       seen_docs \cup {chunk.document_id})
            ELSE ExtractSourcesFrom(Tail(similar_chunks), seen_docs)

ExtractSources(similar_chunks) == ExtractSourcesFrom(similar_chunks, {})

\* a confidence_score is the fraction num/den
Confidence(num, den) == [num |-> num, den |-> den]
ConfidenceIs(c, num, den) == c.num * den = num * c.den

\* _handle_document_query, lines 283-291: mean of the first 5 similarities
\* weighted by 1/(i+1); the weights are taken times 60
WeightedConfidence(final_results) ==
    LET top == Take(final_results, 5)
        weight == [i \in 1..5 |-> 60 \div i]
    IN Confidence(SumSeq([i \in 1..Len(top) |-> top[i].similarity * weight[i]]),
                  Unit * SumSeq([i \in 1..Len(top) |-> weight[i]]))

\* _fallback_keyword_search: the word-overlap score of a chunk
OverlapScore(query_words, chunk) == Cardinality(query_words \cap chunk.text.words)

RECURSIVE InsertByOverlap(_, _, _)
InsertByOverlap(sorted, x, query_words) ==
    IF sorted = <<>> THEN <<x>>
    ELSE IF OverlapScore(query_words, Head(sorted)) >= OverlapScore(query_words, x)
         THEN <<Head(sorted)>> \o InsertByOverlap(Tail(sorted), x, query_words)
         ELSE <<x>> \o sorted

RECURSIVE SortByOverlap(_, _)
SortByOverlap(chunks, query_words) ==
    IF chunks = <<>> THEN <<>>
    ELSE InsertByOverlap(SortByOverlap(SubSeq(chunks, 1, Len(chunks) - 1), query_words),
                         chunks[Len(chunks)], query_words)

RelevantChunks(query_words, documents) ==
    LET Relevant(chunk) == OverlapScore(query_words, chunk) > 0
    IN SelectSeq(AllChunks(documents), Relevant)

FallbackTopChunksUnsorted(query_words, documents) ==
    Take(RelevantChunks(query_words, documents), FallbackTop)

\* _fallback_keyword_search, lines 366-390: top_chunks
FallbackTopChunks(query_words, documents) ==
    Take(SortByOverlap(RelevantChunks(query_words, documents), query_words),
         FallbackTop)

(***************************************************************************)
(* ResponseQualityService.calculate_confidence_indicators.  Scores are in  *)
(* tenths of Unit; a dict argument holds its score or not.                 *)
(***************************************************************************)
confidence_thresholds == [high |-> 11520, medium |-> 8640, low |-> 5760]

\* dict.get(key, default)
Get(dict, key, default) == IF key \in DOMAIN dict THEN dict[key] ELSE default

TenthScores == {(k * Unit) \div 10 : k \in 0..10}

\* a validation_result or fact_check_result, with or without its score
ResultDicts(key) == {[issues |-> <<>>]} \cup [{key} -> TenthScores]

LevelOfExclusive(overall_confidence) ==
    IF overall_confidence > confidence_thresholds.high THEN "high"
    ELSE IF overall_confidence > confidence_thresholds.medium THEN "medium"
    ELSE IF overall_confidence > confidence_thresholds.low THEN "low"
    ELSE "very_low"

\* lines 355-370
LevelOf(overall_confidence) ==
    IF overall_confidence >= confidence_thresholds.high THEN "high"
    ELSE IF overall_confidence >= confidence_thresholds.medium THEN "medium"
    ELSE IF overall_confidence >= confidence_thresholds.low THEN "low"
    ELSE "very_low"

\* calculate_confidence_indicators
CalculateConfidenceIndicators(retrieval_confidence, validation_result, fact_check_result, source_count) ==
    LET retrieval_score == retrieval_confidence
        validation_score == Get(validation_result, "quality_score", Unit \div 2)
        fact_check_score == Get(fact_check_result, "confidence", Unit \div 2)
        source_score == Min2((source_count * Unit) \div 5, Unit)
        overall_confidence ==
            (retrieval_score * 35 + validation_score * 25
             + fact_check_score * 30 + source_score * 10) \div 100
    IN [overall_confidence |-> overall_confidence,
        level |-> LevelOf(overall_confidence),
        components |-> [retrieval |-> retrieval_score,
                        validation |-> validation_score,
                        fact_check |-> fact_check_score,
                        sources |-> source_score]]

(***************************************************************************)
(* ResponseQualityService.validate_response.  An answer is the record of   *)
(* what the checks read in it: the length of its stripped text, its number *)
(* of words, a number with a unit that no source holds, the words it       *)
(* shares with each source, a negation no source holds, what the intent's  *)
(* completeness check misses in it, and its first hedging tier.  A score   *)
(* is the fraction num/den.                                                *)
(***************************************************************************)
Fraction(num, den) == [num |-> num, den |-> den]

Times(a, b) == Fraction(a.num * b.num, a.den * b.den)

\* _check_source_grounding: min(total_overlap / len(response_words), 1.0)
CheckSourceGrounding(answer, n_sources) ==
    IF n_sources = 0 THEN Fraction(0, answer.words)
    ELSE Fraction(Min2(n_sources * answer.overlap, answer.words), answer.words)

\* _check_contradictions: a negation in the answer, sources without one
CheckContradictions(answer, n_sources) ==
    answer.unsupported_negation /\ n_sources > 0

\* _check_completeness, in two-hundredths times tenths
CheckCompleteness(answer, query_is_short, query_intent) ==
    LET by_intent ==
            CASE query_intent = "comparison" -> Fraction(100 * (2 - answer.missing), 200)
              [] query_intent = "list_enumeration" ->
                    Fraction(IF answer.missing > 0 THEN 140 ELSE 200, 200)
              [] query_intent = "procedural" ->
                    Fraction(IF answer.missing > 0 THEN 160 ELSE 200, 200)
              [] OTHER -> Fraction(200, 200)
    IN Times(by_intent,
             Fraction(IF query_is_short /\ answer.words < 30 THEN 9 ELSE 10, 10))

UncertaintyLevels == {"high", "medium", "low", "none"}

ValidateResponseNoEarlyReturn(answer, n_sources, query_is_short, query_intent) ==
    LET grounding == CheckSourceGrounding(answer, n_sources)
        completeness == CheckCompleteness(answer, query_is_short, query_intent)
        start == Fraction(IF answer.stripped_chars < 10 THEN 1 ELSE 10, 10)
        q1 == Times(start, Fraction(IF answer.unsourced_number THEN 8 ELSE 10, 10))
        q2 == Times(q1, grounding)
        q3 == Times(q2, Fraction(IF CheckContradictions(answer, n_sources)
                                 THEN 7 ELSE 10, 10))
        q4 == Times(q3, completeness)
        q5 == Times(q4, Fraction(IF answer.uncertainty = "high" THEN 9 ELSE 10, 10))
    IN [is_valid |-> answer.stripped_chars >= 10,
        issues |-> IF answer.stripped_chars < 10
                   THEN <<"Response too short or empty">> ELSE <<>>,
        quality_score |-> q5,
        grounding_score |-> grounding,
        completeness_score |-> completeness,
        uncertainty_level |-> answer.uncertainty]

\* validate_response
ValidateResponse(answer, n_sources, query_is_short, query_intent) ==
    IF answer.stripped_chars < 10
    THEN [is_valid |-> FALSE,
          issues |-> <<"Response too short or empty">>,
          quality_score |-> Fraction(1, 10)]
    ELSE LET grounding == CheckSourceGrounding(answer, n_sources)
             completeness == CheckCompleteness(answer, query_is_short, query_intent)
             q1 == Fraction(IF answer.unsourced_number THEN 8 ELSE 10, 10)
             q2 == Times(q1, grounding)
             q3 == Times(q2, Fraction(IF CheckContradictions(answer, n_sources)
                                      THEN 7 ELSE 10, 10))
             q4 == Times(q3, completeness)
             q5 == Times(q4, Fraction(IF answer.uncertainty = "high" THEN 9 ELSE 10,
                                      10))
         IN [is_valid |-> TRUE,
             issues |-> <<>>,
             quality_score |-> q5,
             grounding_score |-> grounding,
             completeness_score |-> completeness,
             uncertainty_level |-> answer.uncertainty]

(***************************************************************************)
(* State                                                                   *)
(***************************************************************************)
VARIABLES
    heap,             \* ConversationService: the conversation dict of each id, or None
    cache,            \* ConversationService._cache: the ids it maps to their dict
    files,            \* the file store: the conversation last saved under each id
    heap0,            \* the conversation dicts as they were when the request came in
    nreq,             \* number of requests received
    pc,               \* process_query: the statement it is at
    req,              \* process_query: its arguments and local variables
    calls,            \* the collaborator calls the request made, in order
    result,           \* what process_query returned, or None
    retrievalInput,   \* the result list handed to a pure retrieval function
    retrievalOutput,  \* the call made on it and what it returned
    writers,          \* the threads inside add_message: their position and locals
    understanding,    \* QueryUnderstandingService: a query, the clock, the analyses made
    quality,          \* ResponseQualityService: the arguments of a call and its result
    window,           \* ConversationContextService: the arguments of a call and its result
    index,            \* ConversationService._index
    today,            \* the calendar date datetime.now() reads
    log               \* which delete_conversation calls returned True, and whether
                      \* a call ran, or the date changed, while another was under way

storeVars == <<heap, cache, files>>
requestVars == <<heap0, nreq, pc, req, calls, result>>
retrievalVars == <<retrievalInput, retrievalOutput>>
serviceVars == <<understanding, quality, window>>
indexVars == <<index, today, log>>
vars == <<heap, cache, files, heap0, nreq, pc, req, calls, result,
          retrievalInput, retrievalOutput, writers, understanding, quality,
          window, index, today, log>>

NoCall == [op |-> "none"]

\* the locals of process_query before its first statement
NoRequest ==
    [conversation_id |-> NoId, given_id |-> NoId, user_id |-> None, query |-> None,
     documents |-> <<>>, history |-> <<>>, analysis |-> NoDict,
     needs_summarization |-> FALSE, summary |-> None,
     query_words |-> {}, complexity |-> None, params |-> None,
     results |-> <<>>, response |-> None, sources |-> <<>>,
     confidence |-> Confidence(0, 1), path |-> None,
     embedding |-> "unset", searched |-> FALSE, semantic_results |-> <<>>,
     in_handler |-> FALSE, throws |-> <<>>, absorbed |-> 0]

\* ConversationService.__init__: conversation 1 is loaded from disk with its
\* messages; no other id exists
InitStore ==
    /\ \E n \in HistoryLengths :
        /\ heap = [c \in ConvIds |-> IF c = 1 THEN StoredConversation(n) ELSE NoDict]
        /\ files = [c \in ConvIds |-> IF c = 1 THEN StoredConversation(n) ELSE NoDict]
    /\ cache = {1}

\* ConversationService.__init__ on an empty storage directory
EmptyStore ==
    /\ heap = [c \in ConvIds |-> NoDict]
    /\ files = [c \in ConvIds |-> NoDict]
    /\ cache = {}

InitRequest ==
    /\ heap0 = heap
    /\ nreq = 0
    /\ pc = "idle"
    /\ req = NoRequest
    /\ calls = <<>>
    /\ result = NoDict

IdleRetrieval ==
    /\ retrievalInput = <<>>
    /\ retrievalOutput = NoCall

\* no call of the query-understanding and response-quality services is
\* under observation
IdleServices ==
    /\ understanding = NoDict
    /\ quality = NoDict
    /\ window = NoDict

\* the index, the calendar and the deletions are not under observation
IdleIndex ==
    /\ index = NoDict
    /\ today = 0
    /\ log = NoDict

Writers == {"w1", "w2"}

\* no thread but the request's own is inside add_message
NoWriters ==
    writers = [w \in Writers |->
                 [pc |-> "idle", message |-> NoDict, len_read |-> 0, tokens_read |-> 0]]

(***************************************************************************)
(* QueryService.process_query, one action per statement group.  An action  *)
(* named after a collaborator call is that call returning; Throw is the    *)
(* call (or the statement group) raising instead.                          *)
(***************************************************************************)
Call(fn, arg) == [fn |-> fn, arg |-> arg]

LLMTexts == {"answer", "apology"}
ResponseWords(text) == IF text = "answer" THEN 8 ELSE 21

\* get_conversation
GetConversation(conversation_id) ==
    IF conversation_id \in cache THEN heap[conversation_id] ELSE NoDict

\* line 122
IsGeneralQueryIntentOnly(documents, primary_intent) ==
    primary_intent \in {"general_inquiry", "opinion_recommendation"}

IsGeneralQuery(documents, primary_intent) ==
    \/ documents = <<>>
    \/ primary_intent \in {"general_inquiry", "opinion_recommendation"}

\* the statements inside the try block of _handle_document_query
DocTryPoints ==
    {"doc_complexity", "doc_update_embeddings", "doc_query_embedding",
     "doc_search", "doc_hybrid", "doc_rerank", "doc_filter", "doc_diversify",
     "doc_confidence", "doc_generate"}

\* the statements of process_query that call a collaborator
FalliblePoints ==
    {"get_history", "analyze", "context", "summarize", "create_or_get",
     "add_user", "prepare", "general", "fallback", "add_assistant"}
    \cup DocTryPoints

HandlerOfInnerOnly(point, in_handler) ==
    IF point \in DocTryPoints \/ (point = "fallback" /\ ~in_handler)
    THEN "doc_except"
    ELSE IF point = "fallback" THEN "raised" ELSE "except"

\* the except clause an exception raised at a statement reaches: line 326 from
\* inside the try block of _handle_document_query, line 158 from anywhere else,
\* the handler of line 326 included
HandlerOf(point, in_handler) ==
    IF point \in DocTryPoints \/ (point = "fallback" /\ ~in_handler)
    THEN "doc_except"
    ELSE "except"

Receive ==
    /\ pc = "idle"
    /\ \E conversation_id \in ConvIds \cup {NoId}, user_id \in {"u1", None},
          query \in Queries, documents \in DocumentLists :
        /\ (conversation_id = NoId /\ user_id # None)
            => \E c \in ConvIds : heap[c] = NoDict
        /\ req' = [NoRequest EXCEPT !.conversation_id = conversation_id,
                                    !.given_id = conversation_id,
                                    !.user_id = user_id,
                                    !.query = query,
                                    !.documents = documents]
    /\ nreq' = nreq + 1
    /\ heap0' = heap
    /\ pc' = "get_history"
    /\ calls' = <<>>
    /\ result' = NoDict
    /\ UNCHANGED <<storeVars, retrievalVars, writers, serviceVars, indexVars>>

\* lines 31-35
GetHistory ==
    /\ pc = "get_history"
    /\ IF req.conversation_id # NoId
       THEN /\ req' = [req EXCEPT !.history =
                        GetConversationContext(GetConversation(req.conversation_id),
                                               HistoryLimit)]
            /\ calls' = Append(calls, Call("get_messages", "limit=20"))
       ELSE UNCHANGED <<req, calls>>
    /\ pc' = "analyze"
    /\ UNCHANGED <<storeVars, heap0, nreq, result, retrievalVars, writers, serviceVars, indexVars>>

\* lines 37-43
Analyze ==
    /\ pc = "analyze"
    /\ req' = [req EXCEPT !.analysis = AnalyzeQuery(req.query, req.history)]
    /\ calls' = Append(calls, Call("analyze_query", "query"))
    /\ pc' = "context"
    /\ UNCHANGED <<storeVars, heap0, nreq, result, retrievalVars, writers, serviceVars, indexVars>>

\* lines 49-58
BuildContext ==
    /\ pc = "context"
    /\ req' = [req EXCEPT !.needs_summarization = NeedsSummarization(req.history)]
    /\ calls' = Append(calls, Call("get_relevant_context_for_query", "history"))
    /\ pc' = IF NeedsSummarization(req.history) THEN "summarize"
             ELSE "check_clarification"
    /\ UNCHANGED <<storeVars, heap0, nreq, result, retrievalVars, writers, serviceVars, indexVars>>

\* lines 60-67 and summarize_conversation: the LLM is asked for a summary; its
\* failure is caught inside and the extractive summary returned instead
Summarize ==
    /\ pc = "summarize"
    /\ IF SummaryUsesLLM(req.history)
       THEN /\ calls' = Append(calls, Call("generate_response", "summary"))
            /\ \/ req' = [req EXCEPT !.summary = "llm"]
               \/ req' = [req EXCEPT !.summary = "extractive",
                                     !.absorbed = req.absorbed + 1]
       ELSE /\ req' = [req EXCEPT !.summary = "empty"]
            /\ UNCHANGED calls
    /\ pc' = "check_clarification"
    /\ UNCHANGED <<storeVars, heap0, nreq, result, retrievalVars, writers, serviceVars, indexVars>>

\* lines 69-80
CheckClarification ==
    /\ pc = "check_clarification"
    /\ IF req.analysis.needs_clarification
       THEN /\ result' = [response |-> req.analysis.clarification_prompt,
                          conversation_id |-> req.conversation_id,
                          query_type |-> "clarification_needed",
                          sources |-> <<>>,
                          confidence_score |-> Confidence(0, 1)]
            /\ req' = [req EXCEPT !.path = "clarification"]
            /\ pc' = "done"
       ELSE /\ pc' = "create_or_get"
            /\ UNCHANGED <<result, req>>
    /\ UNCHANGED <<storeVars, heap0, nreq, calls, retrievalVars, writers, serviceVars, indexVars>>

\* lines 82-93; create_conversation saves the new dict, and _save_conversation
\* swallows a failure of the write, leaving the conversation out of the cache
CreateOrGet ==
    /\ pc = "create_or_get"
    /\ IF req.conversation_id = NoId /\ req.user_id # None
       THEN LET id == CHOOSE c \in ConvIds :
                        heap[c] = NoDict /\ \A d \in ConvIds : heap[d] = NoDict => c <= d
            IN /\ heap' = [heap EXCEPT ![id] = NewConversation]
               /\ \/ /\ files' = [files EXCEPT ![id] = NewConversation]
                     /\ cache' = cache \cup {id}
                  \/ UNCHANGED <<files, cache>>
               /\ req' = [req EXCEPT !.conversation_id = id]
               /\ calls' = Append(calls, Call("create_conversation", "user"))
       ELSE IF req.conversation_id # NoId
       THEN /\ calls' = Append(calls, Call("get_conversation", "id"))
            /\ UNCHANGED <<storeVars, req>>
       ELSE UNCHANGED <<storeVars, req, calls>>
    /\ pc' = "add_user"
    /\ UNCHANGED <<heap0, nreq, result, retrievalVars, writers, serviceVars, indexVars>>

StoreAddMessageSkippingMissing(conversation_id, message, next) ==
    IF conversation_id \notin cache
    THEN /\ pc' = next
         /\ calls' = Append(calls, Call("add_message", "not found"))
         /\ UNCHANGED <<storeVars, req>>
    ELSE /\ heap' = [heap EXCEPT ![conversation_id] = AppendMessage(@, message)]
         /\ \/ files' = [files EXCEPT ![conversation_id] =
                            AppendMessage(heap[conversation_id], message)]
            \/ UNCHANGED files
         /\ calls' = Append(calls, Call("add_message", message.role))
         /\ pc' = next
         /\ UNCHANGED <<cache, req>>

\* ConversationModel.add_message from process_query: the whole of add_message,
\* then _save_conversation, which swallows a failure of the write
StoreAddMessage(conversation_id, message, next) ==
    IF conversation_id \notin cache
    THEN /\ pc' = HandlerOf(pc, req.in_handler)
         /\ req' = [req EXCEPT !.throws = Append(req.throws, pc)]
         /\ calls' = Append(calls, Call("add_message", "not found"))
         /\ UNCHANGED storeVars
    ELSE /\ heap' = [heap EXCEPT ![conversation_id] = AppendMessage(@, message)]
         /\ \/ files' = [files EXCEPT ![conversation_id] =
                            AppendMessage(heap[conversation_id], message)]
            \/ UNCHANGED files
         /\ calls' = Append(calls, Call("add_message", message.role))
         /\ pc' = next
         /\ UNCHANGED <<cache, req>>

\* lines 95-102
AddUserMessage ==
    /\ pc = "add_user"
    /\ IF req.conversation_id # NoId
       THEN StoreAddMessage(req.conversation_id,
                NewMessage(<<nreq, 1>>, "user", req.query.words,
                           GetQueryMetadata(req.analysis)),
                "prepare")
       ELSE /\ pc' = "prepare"
            /\ UNCHANGED <<storeVars, req, calls>>
    /\ UNCHANGED <<heap0, nreq, result, retrievalVars, writers, serviceVars, indexVars>>

\* lines 104-115
PrepareContext ==
    /\ pc = "prepare"
    /\ calls' = Append(calls, Call("enhance_query_with_context", "query"))
    /\ pc' = "dispatch"
    /\ UNCHANGED <<storeVars, heap0, nreq, req, result, retrievalVars, writers, serviceVars, indexVars>>

\* lines 117-122
Dispatch ==
    /\ pc = "dispatch"
    /\ IF IsGeneralQuery(req.documents, req.analysis.primary_intent)
       THEN /\ pc' = "general"
            /\ UNCHANGED req
       ELSE /\ pc' = "doc_complexity"
            /\ \E query_words \in QueryWordSets :
                 req' = [req EXCEPT !.query_words = query_words]
    /\ UNCHANGED <<storeVars, heap0, nreq, calls, result, retrievalVars, writers, serviceVars, indexVars>>

\* lines 123-127 and _handle_general_query
HandleGeneralQuery ==
    /\ pc = "general"
    /\ \E text \in LLMTexts :
        req' = [req EXCEPT !.response = text, !.sources = <<>>,
                           !.confidence = Confidence(7, 10), !.path = "general"]
    /\ calls' = calls \o << Call("create_contextual_prompt", "general"),
                            Call("generate_response", "general") >>
    /\ pc' = "add_assistant"
    /\ UNCHANGED <<storeVars, heap0, nreq, result, retrievalVars, writers, serviceVars, indexVars>>

\* _handle_document_query, lines 199-204
DocComplexity ==
    /\ pc = "doc_complexity"
    /\ \E flags \in ComplexityFlags :
        req' = [req EXCEPT
                  !.complexity = AnalyzeQueryComplexity(flags),
                  !.params = CalculateAdaptiveParameters(AnalyzeQueryComplexity(flags))]
    /\ pc' = "doc_update_embeddings"
    /\ UNCHANGED <<storeVars, heap0, nreq, calls, result, retrievalVars, writers, serviceVars, indexVars>>

\* lines 206-208
DocUpdateEmbeddings ==
    /\ pc = "doc_update_embeddings"
    /\ calls' = Append(calls, Call("update_document_embeddings", "documents"))
    /\ pc' = "doc_query_embedding"
    /\ UNCHANGED <<storeVars, heap0, nreq, req, result, retrievalVars, writers, serviceVars, indexVars>>

\* lines 210-214: get_single_embedding returns the embedding or None
DocQueryEmbedding ==
    /\ pc = "doc_query_embedding"
    /\ calls' = Append(calls, Call("get_single_embedding", "query"))
    /\ \/ /\ req' = [req EXCEPT !.embedding = "vector"]
          /\ pc' = "doc_search"
       \/ /\ req' = [req EXCEPT !.embedding = None]
          /\ pc' = "fallback"
    /\ UNCHANGED <<storeVars, heap0, nreq, result, retrievalVars, writers, serviceVars, indexVars>>

\* lines 216-226
DocSearch ==
    /\ pc = "doc_search"
    /\ calls' = Append(calls, Call("search_similar_chunks", "top_k"))
    /\ \E semantic_results \in SemanticResultChoices :
        /\ req' = [req EXCEPT
                     !.searched = TRUE,
                     !.semantic_results = Take(semantic_results, req.params.top_k),
                     !.results = Take(semantic_results, req.params.top_k)]
        /\ pc' = IF semantic_results = <<>> THEN "fallback" ELSE "doc_hybrid"
    /\ UNCHANGED <<storeVars, heap0, nreq, result, retrievalVars, writers, serviceVars, indexVars>>

\* lines 228-253
DocHybrid ==
    /\ pc = "doc_hybrid"
    /\ req' = [req EXCEPT !.results =
                HybridSearch(req.results, req.query_words, AllChunks(req.documents),
                             req.params.keyword_weight)]
    /\ calls' = Append(calls, Call("hybrid_search", "semantic_results"))
    /\ pc' = "doc_rerank"
    /\ UNCHANGED <<storeVars, heap0, nreq, result, retrievalVars, writers, serviceVars, indexVars>>

\* lines 257-258
DocRerank ==
    /\ pc = "doc_rerank"
    /\ req' = [req EXCEPT !.results = RerankResults(req.results, req.complexity)]
    /\ calls' = Append(calls, Call("rerank_results", "hybrid_results"))
    /\ pc' = "doc_filter"
    /\ UNCHANGED <<storeVars, heap0, nreq, result, retrievalVars, writers, serviceVars, indexVars>>

\* lines 260-265
DocFilter ==
    /\ pc = "doc_filter"
    /\ req' = [req EXCEPT !.results =
                FilterByDynamicThreshold(req.results, req.params.similarity_threshold,
                                         req.complexity)]
    /\ calls' = Append(calls, Call("filter_by_dynamic_threshold", "reranked_results"))
    /\ pc' = "doc_diversify"
    /\ UNCHANGED <<storeVars, heap0, nreq, result, retrievalVars, writers, serviceVars, indexVars>>

\* lines 269-277
DocDiversify ==
    /\ pc = "doc_diversify"
    /\ LET final_results == DiversifyResults(req.results, DefaultMaxPerDocument)
       IN /\ req' = [req EXCEPT !.results = final_results]
          /\ pc' = IF final_results = <<>> THEN "fallback" ELSE "doc_confidence"
    /\ calls' = Append(calls, Call("diversify_results", "filtered_results"))
    /\ UNCHANGED <<storeVars, heap0, nreq, result, retrievalVars, writers, serviceVars, indexVars>>

\* lines 279-291
DocConfidence ==
    /\ pc = "doc_confidence"
    /\ req' = [req EXCEPT !.sources = ExtractSources(req.results),
                          !.confidence = WeightedConfidence(req.results)]
    /\ pc' = "doc_generate"
    /\ UNCHANGED <<storeVars, heap0, nreq, calls, result, retrievalVars, writers, serviceVars, indexVars>>

\* lines 293-324
DocGenerate ==
    /\ pc = "doc_generate"
    /\ \E text \in LLMTexts :
        req' = [req EXCEPT !.response = text, !.path = "full"]
    /\ calls' = calls \o << Call("create_contextual_prompt", "document"),
                            Call("generate_response", "document") >>
    /\ pc' = "add_assistant"
    /\ UNCHANGED <<storeVars, heap0, nreq, result, retrievalVars, writers, serviceVars, indexVars>>

\* _fallback_keyword_search and the `return response, [], 0.3` after it
\* (lines 213-214, 225-226, 276-277, 329-330)
Fallback ==
    /\ pc = "fallback"
    /\ \E text \in LLMTexts :
        req' = [req EXCEPT
                  !.results = FallbackTopChunks(req.query_words, req.documents),
                  !.response = text, !.sources = <<>>,
                  !.confidence = Confidence(3, 10), !.path = "fallback"]
    /\ calls' = calls \o << Call("fallback_keyword_search", "documents"),
                            Call("create_contextual_prompt", "document"),
                            Call("generate_response", "fallback") >>
    /\ pc' = "add_assistant"
    /\ UNCHANGED <<storeVars, heap0, nreq, result, retrievalVars, writers, serviceVars, indexVars>>

\* the except clause of _handle_document_query, lines 326-329
DocExcept ==
    /\ pc = "doc_except"
    /\ req' = [req EXCEPT !.in_handler = TRUE]
    /\ pc' = "fallback"
    /\ UNCHANGED <<storeVars, heap0, nreq, calls, result, retrievalVars, writers, serviceVars, indexVars>>

\* lines 134-147
AddAssistantMessage ==
    /\ pc = "add_assistant"
    /\ IF req.conversation_id # NoId
       THEN StoreAddMessage(req.conversation_id,
                NewMessage(<<nreq, 2>>, "assistant", ResponseWords(req.response),
                           [kind |-> "answer",
                            query_type |-> req.analysis.primary_intent,
                            sources |-> req.sources,
                            confidence_score |-> req.confidence,
                            is_follow_up |-> req.analysis.is_follow_up]),
                "return")
       ELSE /\ pc' = "return"
            /\ UNCHANGED <<storeVars, req, calls>>
    /\ UNCHANGED <<heap0, nreq, result, retrievalVars, writers, serviceVars, indexVars>>

\* lines 149-156
Return ==
    /\ pc = "return"
    /\ result' = [response |-> req.response,
                  conversation_id |-> req.conversation_id,
                  query_type |-> req.analysis.primary_intent,
                  sources |-> req.sources,
                  confidence_score |-> req.confidence]
    /\ pc' = "done"
    /\ UNCHANGED <<storeVars, heap0, nreq, req, calls, retrievalVars, writers, serviceVars, indexVars>>

\* a collaborator call raises: control goes to the except clause around it
Throw ==
    /\ pc \in FalliblePoints
    /\ req' = [req EXCEPT !.throws = Append(req.throws, pc)]
    /\ pc' = HandlerOf(pc, req.in_handler)
    /\ UNCHANGED <<storeVars, heap0, nreq, calls, result, retrievalVars, writers, serviceVars, indexVars>>

\* the except clause of process_query, lines 158-167
Except ==
    /\ pc = "except"
    /\ result' = [response |-> "Sorry, there was an error",
                  conversation_id |-> req.conversation_id,
                  query_type |-> "error",
                  sources |-> <<>>,
                  confidence_score |-> Confidence(0, 1)]
    /\ pc' = "done"
    /\ UNCHANGED <<storeVars, heap0, nreq, req, calls, retrievalVars, writers, serviceVars, indexVars>>

Init ==
    /\ InitStore
    /\ InitRequest
    /\ IdleRetrieval
    /\ NoWriters
    /\ IdleServices
    /\ IdleIndex

Next ==
    \/ Receive
    \/ GetHistory
    \/ Analyze
    \/ BuildContext
    \/ Summarize
    \/ CheckClarification
    \/ CreateOrGet
    \/ AddUserMessage
    \/ PrepareContext
    \/ Dispatch
    \/ HandleGeneralQuery
    \/ DocComplexity
    \/ DocUpdateEmbeddings
    \/ DocQueryEmbedding
    \/ DocSearch
    \/ DocHybrid
    \/ DocRerank
    \/ DocFilter
    \/ DocDiversify
    \/ DocConfidence
    \/ DocGenerate
    \/ Fallback
    \/ DocExcept
    \/ AddAssistantMessage
    \/ Return
    \/ Throw
    \/ Except

Spec == Init /\ [][Next]_vars

(***************************************************************************)
(* Specification of the pure retrieval functions: the input list is any    *)
(* list of at most MaxResults results, and each action is one call.        *)
(***************************************************************************)
\* -0.05, 0.35, 0.65 and 0.90
SimilarityValues == {-720, 5040, 9360, 12960}

\* 0.35, 0.50 and the two scores at which the threshold rule changes, 0.60
\* and 0.80
BoundarySimilarityValues == {5040, 7200, 8640, 11520}

ResultLists ==
    UNION {[1..n -> DocIds \X SimilarityValues] : n \in 0..MaxResults}
    \cup UNION {[1..n -> {"d1"} \X BoundarySimilarityValues] :
                    n \in 1..MaxBoundaryResults}

MakeResults(f) ==
    [i \in 1..Len(f) |->
        [document_id |-> f[i][1], similarity |-> f[i][2], chunk_index |-> i]]

QueryAnalyses ==
    [complexity_level : ComplexityLevels, is_specific : BOOLEAN]

InitRetrieval ==
    /\ retrievalInput \in {MakeResults(f) : f \in ResultLists}
    /\ retrievalOutput = NoCall
    /\ EmptyStore
    /\ InitRequest
    /\ NoWriters
    /\ IdleServices
    /\ IdleIndex

CallDiversify ==
    /\ retrievalOutput = NoCall
    /\ \E m \in 1..MaxPerDocArg :
        retrievalOutput' =
            [op |-> "diversify_results", max_per_document |-> m,
             value |-> DiversifyResults(retrievalInput, m)]
    /\ UNCHANGED <<retrievalInput, storeVars, requestVars, writers, serviceVars, indexVars>>

CallFilter ==
    /\ retrievalOutput = NoCall
    /\ \E b \in BaseThresholds, qa \in QueryAnalyses :
        retrievalOutput' =
            [op |-> "filter_by_dynamic_threshold", base_threshold |-> b,
             query_analysis |-> qa,
             value |-> FilterByDynamicThreshold(retrievalInput, b, qa)]
    /\ UNCHANGED <<retrievalInput, storeVars, requestVars, writers, serviceVars, indexVars>>

NextRetrieval == CallDiversify \/ CallFilter

SpecRetrieval == InitRetrieval /\ [][NextRetrieval]_vars

(***************************************************************************)
(* Two threads in ConversationService.add_message on conversation 1, one   *)
(* action per read or write of the shared dict.  get_conversation hands    *)
(* both the dict the cache holds; _cache_lock is held inside               *)
(* get_conversation and inside _save_conversation only.  The writes to     *)
(* disk succeed.                                                           *)
(***************************************************************************)
WriterWords == {2, 6}

WriterMessage(w, words) ==
    NewMessage(<<w, 1>>, IF w = "w1" THEN "user" ELSE "assistant", words, NoMetadata)

InitWriters ==
    /\ \E n \in 0..MaxStored :
        /\ heap = [c \in ConvIds |-> IF c = 1 THEN StoredConversation(n) ELSE NoDict]
        /\ files = [c \in ConvIds |-> IF c = 1 THEN StoredConversation(n) ELSE NoDict]
    /\ cache = {1}
    /\ InitRequest
    /\ IdleRetrieval
    /\ IdleServices
    /\ IdleIndex
    /\ \E words \in [Writers -> WriterWords] :
        writers = [w \in Writers |->
                     [pc |-> "get", message |-> WriterMessage(w, words[w]),
                      len_read |-> 0, tokens_read |-> 0]]

WriterStep(w, from, to) ==
    /\ writers[w].pc = from
    /\ writers' = [writers EXCEPT ![w].pc = to]

\* lines 218-221: get_conversation, under the lock
WriterGet(w) ==
    /\ 1 \in cache
    /\ WriterStep(w, "get", "append")
    /\ UNCHANGED <<storeVars, requestVars, retrievalVars, serviceVars, indexVars>>

\* line 239: conversation['messages'].append(message)
WriterAppend(w) ==
    /\ WriterStep(w, "append", "read_len")
    /\ heap' = [heap EXCEPT ![1].messages = Append(@, writers[w].message)]
    /\ UNCHANGED <<cache, files, requestVars, retrievalVars, serviceVars, indexVars>>

\* line 240, right-hand side: len(conversation['messages'])
WriterReadLen(w) ==
    /\ writers[w].pc = "read_len"
    /\ writers' = [writers EXCEPT ![w].pc = "store_count",
                                  ![w].len_read = Len(heap[1].messages)]
    /\ UNCHANGED <<storeVars, requestVars, retrievalVars, serviceVars, indexVars>>

\* line 240, the store into conversation['message_count']
WriterStoreCount(w) ==
    /\ WriterStep(w, "store_count", "read_tokens")
    /\ heap' = [heap EXCEPT ![1].message_count = writers[w].len_read]
    /\ UNCHANGED <<cache, files, requestVars, retrievalVars, serviceVars, indexVars>>

\* line 242, the read of conversation['metadata']['total_tokens']
WriterReadTokens(w) ==
    /\ writers[w].pc = "read_tokens"
    /\ writers' = [writers EXCEPT ![w].pc = "write_tokens",
                                  ![w].tokens_read = heap[1].total_tokens]
    /\ UNCHANGED <<storeVars, requestVars, retrievalVars, serviceVars, indexVars>>

\* line 242, the store of the sum
WriterWriteTokens(w) ==
    /\ WriterStep(w, "write_tokens", "save")
    /\ heap' = [heap EXCEPT ![1].total_tokens =
                  writers[w].tokens_read + writers[w].message.token_count]
    /\ UNCHANGED <<cache, files, requestVars, retrievalVars, serviceVars, indexVars>>

\* line 255 and _save_conversation, under the lock
WriterSave(w) ==
    /\ WriterStep(w, "save", "done")
    /\ files' = [files EXCEPT ![1] = heap[1]]
    /\ cache' = cache \cup {1}
    /\ UNCHANGED <<heap, requestVars, retrievalVars, serviceVars, indexVars>>

NextStore ==
    \E w \in Writers :
        \/ WriterGet(w)
        \/ WriterAppend(w)
        \/ WriterReadLen(w)
        \/ WriterStoreCount(w)
        \/ WriterReadTokens(w)
        \/ WriterWriteTokens(w)
        \/ WriterSave(w)

SpecStore == InitWriters /\ [][NextStore]_vars

(***************************************************************************)
(* ConversationService with its index: create_conversation,                *)
(* delete_conversation and cleanup_old_conversations by a main thread,     *)
(* add_message and update_conversation by writer threads, the date         *)
(* advancing.  A conversation is its user_id, organization_id, updated_at  *)
(* (a day number) and message_count; ids are never reused (uuid4).  A      *)
(* writer is between its get_conversation and its _save_conversation, the  *)
(* two places where add_message and update_conversation hold _cache_lock.  *)
(* The writes to disk succeed.                                             *)
(***************************************************************************)
MaxDay == 2

Days == 0..MaxDay

IndexUsers == {"u1", "u2"}

IndexOrgs == {"o1"}

\* retention, in days, passed to cleanup_old_conversations
CleanupDays == {1}

EmptyIndex ==
    [by_user |-> [u \in IndexUsers |-> <<>>],
     by_org |-> [o \in IndexOrgs |-> <<>>],
     by_date |-> [d \in Days |-> <<>>],
     metadata |-> [c \in ConvIds |-> NoDict]]

Listed(list, conv_id) == \E k \in 1..Len(list) : list[k] = conv_id

\* if conv_id not in list: list.append(conv_id)
AppendIfAbsent(list, conv_id) ==
    IF Listed(list, conv_id) THEN list ELSE Append(list, conv_id)

\* if conv_id in list: list.remove(conv_id)
RemoveFirst(list, conv_id) ==
    IF ~Listed(list, conv_id) THEN list
    ELSE LET k == CHOOSE i \in 1..Len(list) :
                    list[i] = conv_id /\ \A j \in 1..(i - 1) : list[j] # conv_id
         IN SubSeq(list, 1, k - 1) \o SubSeq(list, k + 1, Len(list))

\* _add_to_index
AddToIndex(ix, conv_id, conversation) ==
    [by_user |-> [ix.by_user EXCEPT ![conversation.user_id] =
                     AppendIfAbsent(@, conv_id)],
     by_org |-> [ix.by_org EXCEPT ![conversation.organization_id] =
                     AppendIfAbsent(@, conv_id)],
     by_date |-> [ix.by_date EXCEPT ![conversation.updated_at] =
                     AppendIfAbsent(@, conv_id)],
     metadata |-> [ix.metadata EXCEPT ![conv_id] =
                     [user_id |-> conversation.user_id,
                      organization_id |-> conversation.organization_id,
                      updated_at |-> conversation.updated_at,
                      message_count |-> conversation.message_count]]]

\* _remove_from_index
RemoveFromIndex(ix, conv_id) ==
    IF ix.metadata[conv_id] = NoDict THEN ix
    ELSE LET metadata == ix.metadata[conv_id]
         IN [by_user |-> [ix.by_user EXCEPT ![metadata.user_id] =
                             RemoveFirst(@, conv_id)],
             by_org |-> [ix.by_org EXCEPT ![metadata.organization_id] =
                             RemoveFirst(@, conv_id)],
             by_date |-> [ix.by_date EXCEPT ![metadata.updated_at] =
                             RemoveFirst(@, conv_id)],
             metadata |-> [ix.metadata EXCEPT ![conv_id] = NoDict]]

\* the store as _cache_lock guards it
Store(c, f, ix) == [cache |-> c, files |-> f, index |-> ix]

\* _save_conversation, inside the lock
SaveConversation(st, conv_id, conversation) ==
    Store(st.cache \cup {conv_id},
          [st.files EXCEPT ![conv_id] = conversation],
          AddToIndex(st.index, conv_id, conversation))

\* delete_conversation, inside the lock
Deleted(st, conv_id) ==
    Store(st.cache \ {conv_id},
          [st.files EXCEPT ![conv_id] = NoDict],
          RemoveFromIndex(st.index, conv_id))

RECURSIVE DeletedAll(_, _)
DeletedAll(st, conv_ids) ==
    IF conv_ids = {} THEN st
    ELSE LET conv_id == CHOOSE c \in conv_ids : TRUE
         IN DeletedAll(Deleted(st, conv_id), conv_ids \ {conv_id})

\* cleanup_old_conversations: the ids under a date before the cutoff whose
\* metadata is older than the cutoff
OldConversations(ix, cutoff) ==
    {c \in ConvIds :
        /\ \E d \in Days : d < cutoff /\ Listed(ix.by_date[d], c)
        /\ ix.metadata[c] # NoDict
        /\ ix.metadata[c].updated_at < cutoff}

\* the threads that call add_message and update_conversation, beside the
\* main thread
IndexWriters == {"w1"}

IdleWriter == [pc |-> "idle", op |-> "none", id |-> NoId]

Holding == {w \in Writers : writers[w].pc = "holding"}

\* a call of the main thread, or midnight: it overlaps the writers that are
\* under way
MainCall(deleted) ==
    log' = [deleted |-> log.deleted \cup deleted,
            overlapped |-> log.overlapped \/ Holding # {}]

InitIndex ==
    /\ EmptyStore
    /\ InitRequest
    /\ IdleRetrieval
    /\ IdleServices
    /\ writers = [w \in Writers |-> IdleWriter]
    /\ index = EmptyIndex
    /\ today = 0
    /\ log = [deleted |-> {}, overlapped |-> FALSE]

CreateConversation ==
    /\ \E c \in ConvIds : heap[c] = NoDict
    /\ \E user_id \in IndexUsers, organization_id \in IndexOrgs :
        LET id == CHOOSE c \in ConvIds :
                      heap[c] = NoDict /\ \A d \in ConvIds : heap[d] = NoDict => c <= d
            conversation == [user_id |-> user_id, organization_id |-> organization_id,
                             updated_at |-> today, message_count |-> 0]
            st == SaveConversation(Store(cache, files, index), id, conversation)
        IN /\ heap' = [heap EXCEPT ![id] = conversation]
           /\ cache' = st.cache
           /\ files' = st.files
           /\ index' = st.index
    /\ MainCall({})
    /\ UNCHANGED <<requestVars, retrievalVars, writers, serviceVars, today>>

\* add_message, update_conversation: get_conversation returned the dict
BeginWrite(w) ==
    /\ writers[w].pc = "idle"
    /\ \E conv_id \in cache, op \in {"add_message", "update_conversation"} :
        /\ op = "add_message" => heap[conv_id].message_count < MaxStored
        /\ writers' = [writers EXCEPT ![w] =
                          [pc |-> "holding", op |-> op, id |-> conv_id]]
    /\ log' = [log EXCEPT !.overlapped = @ \/ Holding # {}]
    /\ UNCHANGED <<storeVars, requestVars, retrievalVars, serviceVars, index, today>>

\* add_message lines 239-253, update_conversation lines 304-312: the dict is
\* changed and handed to _save_conversation
FinishWrite(w) ==
    /\ writers[w].pc = "holding"
    /\ LET conv_id == writers[w].id
           conversation ==
               [heap[conv_id] EXCEPT
                  !.message_count = IF writers[w].op = "add_message"
                                    THEN @ + 1 ELSE @,
                  !.updated_at = today]
           st == SaveConversation(Store(cache, files, index), conv_id, conversation)
       IN /\ heap' = [heap EXCEPT ![conv_id] = conversation]
          /\ cache' = st.cache
          /\ files' = st.files
          /\ index' = st.index
    /\ writers' = [writers EXCEPT ![w] = IdleWriter]
    /\ UNCHANGED <<requestVars, retrievalVars, serviceVars, today, log>>

\* delete_conversation of a conversation that was created, returning True
DeleteConversation ==
    /\ \E conv_id \in ConvIds :
        /\ heap[conv_id] # NoDict
        /\ conv_id \notin log.deleted
        /\ LET st == Deleted(Store(cache, files, index), conv_id)
           IN /\ cache' = st.cache
              /\ files' = st.files
              /\ index' = st.index
        /\ MainCall({conv_id})
    /\ UNCHANGED <<heap, requestVars, retrievalVars, writers, serviceVars, today>>

CleanupOldConversations ==
    /\ \E days \in CleanupDays :
        LET old == OldConversations(index, today - days)
            st == DeletedAll(Store(cache, files, index), old)
        IN /\ old # {}
           /\ cache' = st.cache
           /\ files' = st.files
           /\ index' = st.index
           /\ MainCall(old)
    /\ UNCHANGED <<heap, requestVars, retrievalVars, writers, serviceVars, today>>

\* midnight
AdvanceDate ==
    /\ today < MaxDay
    /\ today' = today + 1
    /\ MainCall({})
    /\ UNCHANGED <<storeVars, requestVars, retrievalVars, writers, serviceVars,
                   index>>

NextIndex ==
    \/ CreateConversation
    \/ \E w \in IndexWriters : BeginWrite(w)
    \/ \E w \in IndexWriters : FinishWrite(w)
    \/ DeleteConversation
    \/ CleanupOldConversations
    \/ AdvanceDate

SpecIndex == InitIndex /\ [][NextIndex]_vars

(***************************************************************************)
(* Calls of QueryUnderstandingService.analyze_query with the same          *)
(* arguments, the clock advancing between them.                            *)
(***************************************************************************)
UnderstandingHistories ==
    {Take(StoredConversation(MaxAnalysisHistory).messages, n) :
        n \in 0..MaxAnalysisHistory}

InitUnderstanding ==
    /\ EmptyStore
    /\ InitRequest
    /\ IdleRetrieval
    /\ NoWriters
    /\ window = NoDict
    /\ IdleIndex
    /\ quality = NoDict
    /\ \E query \in AllQueries, history \in UnderstandingHistories,
          available_documents \in {0, 2} :
          understanding = [query |-> query,
                           conversation_history |-> history,
                           available_documents |-> available_documents,
                           now |-> 0,
                           analyses |-> <<>>]

\* time passes between two calls
ClockTick ==
    /\ understanding.now < MaxClock
    /\ understanding' = [understanding EXCEPT !.now = @ + 1]
    /\ UNCHANGED <<storeVars, requestVars, retrievalVars, writers, quality, window, indexVars>>

CallAnalyzeQuery ==
    /\ Len(understanding.analyses) < MaxAnalyses
    /\ understanding' =
          [understanding EXCEPT !.analyses =
              Append(@, AnalyzeQueryAt(understanding.query,
                                       understanding.conversation_history,
                                       understanding.available_documents,
                                       understanding.now))]
    /\ UNCHANGED <<storeVars, requestVars, retrievalVars, writers, quality, window, indexVars>>

NextUnderstanding ==
    \/ ClockTick
    \/ CallAnalyzeQuery

SpecUnderstanding == InitUnderstanding /\ [][NextUnderstanding]_vars

(***************************************************************************)
(* Calls of analyze_query_complexity with calculate_adaptive_parameters,   *)
(* of hybrid_search and of rerank_results, each on arguments of its own.   *)
(***************************************************************************)
\* every combination of what analyze_query_complexity detects in a query
AllComplexityFlags ==
    [is_question : BOOLEAN, is_comparison : BOOLEAN, is_multipart : BOOLEAN,
     is_long : BOOLEAN, is_specific : BOOLEAN]

\* keyword_weight in twentieths: 0, the three weights of
\* calculate_adaptive_parameters, 0.5 and 1
KeywordWeights == {0, 4, 5, 6, 10, 20}

\* a semantic result that carries the chunk_id its candidate has
CandidateHit(document_id, i, similarity) ==
    [Hit(document_id, i, similarity) EXCEPT
        !.chunk_id = CandidateChunkId(document_id, i)]

HybridSemanticChoices ==
    SemanticResultChoices
    \cup {<<CandidateHit(c[1], c[2], similarity)>> :
            c \in {<<"d1", 0>>, <<"d1", 2>>, <<"d1", 3>>, <<"d2", 0>>},
            similarity \in {1440, 12960}}
    \cup {<< CandidateHit("d1", 3, 1440), CandidateHit("d1", 0, 12960) >>}

\* a result as rerank_results reads it; chunk_index is its place in the list
RerankInput(f) ==
    [i \in 1..Len(f) |->
        [text |-> [ChunkText({"refund"}, f[i].wc) EXCEPT
                      !.comparative = f[i].comparative],
         document_id |-> "d1", chunk_index |-> i,
         pages |-> f[i].pages, similarity |-> f[i].similarity]]

\* a score of 0.50 on page 1 or not, with word counts around 20, 50 and
\* 300, and a score of 0.98 that the boosts carry over 1.0
RerankLists ==
    UNION {[1..n -> [similarity : {7200}, pages : {{}, {1}},
                     wc : {19, 20, 49, 50, 300, 301}, comparative : BOOLEAN]
                    \cup [similarity : {14112}, pages : {{1}},
                          wc : {19, 50, 301}, comparative : BOOLEAN]] :
            n \in 0..MaxReranked}

RankingArguments ==
    [op : {"calculate_adaptive_parameters"}, flags : AllComplexityFlags]
    \cup [op : {"hybrid_search"}, semantic_results : HybridSemanticChoices,
          query_words : QueryWordSets, all_chunks : {AllChunks(OrgDocuments)},
          keyword_weight : KeywordWeights]
    \cup {[op |-> "rerank_results", results |-> RerankInput(f),
           query_analysis |-> [is_comparison |-> c]] :
            f \in RerankLists, c \in BOOLEAN}

InitRanking ==
    /\ retrievalInput \in RankingArguments
    /\ retrievalOutput = NoCall
    /\ EmptyStore
    /\ InitRequest
    /\ NoWriters
    /\ IdleServices
    /\ IdleIndex

CallAdaptiveParameters ==
    /\ retrievalOutput = NoCall
    /\ retrievalInput.op = "calculate_adaptive_parameters"
    /\ LET query_analysis == AnalyzeQueryComplexity(retrievalInput.flags)
       IN retrievalOutput' =
            [op |-> "calculate_adaptive_parameters",
             query_analysis |-> query_analysis,
             value |-> CalculateAdaptiveParameters(query_analysis)]
    /\ UNCHANGED <<retrievalInput, storeVars, requestVars, writers, serviceVars, indexVars>>

CallHybridSearch ==
    /\ retrievalOutput = NoCall
    /\ retrievalInput.op = "hybrid_search"
    /\ retrievalOutput' =
          [op |-> "hybrid_search",
           value |-> HybridSearch(retrievalInput.semantic_results,
                                  retrievalInput.query_words,
                                  retrievalInput.all_chunks,
                                  retrievalInput.keyword_weight)]
    /\ UNCHANGED <<retrievalInput, storeVars, requestVars, writers, serviceVars, indexVars>>

CallRerankResults ==
    /\ retrievalOutput = NoCall
    /\ retrievalInput.op = "rerank_results"
    /\ retrievalOutput' =
          [op |-> "rerank_results",
           value |-> RerankResults(retrievalInput.results,
                                   retrievalInput.query_analysis)]
    /\ UNCHANGED <<retrievalInput, storeVars, requestVars, writers, serviceVars, indexVars>>

NextRanking ==
    \/ CallAdaptiveParameters
    \/ CallHybridSearch
    \/ CallRerankResults

SpecRanking == InitRanking /\ [][NextRanking]_vars

(***************************************************************************)
(* One call of calculate_confidence_indicators on any arguments            *)
(***************************************************************************)
InitQuality ==
    /\ EmptyStore
    /\ InitRequest
    /\ IdleRetrieval
    /\ NoWriters
    /\ window = NoDict
    /\ IdleIndex
    /\ understanding = NoDict
    /\ \E retrieval_confidence \in TenthScores,
          validation_result \in ResultDicts("quality_score"),
          fact_check_result \in ResultDicts("confidence"),
          source_count \in 0..MaxSources :
          quality = [retrieval_confidence |-> retrieval_confidence,
                     validation_result |-> validation_result,
                     fact_check_result |-> fact_check_result,
                     source_count |-> source_count,
                     result |-> NoDict]

CallConfidenceIndicators ==
    /\ quality.result = NoDict
    /\ quality' = [quality EXCEPT !.result =
                      CalculateConfidenceIndicators(quality.retrieval_confidence,
                                                    quality.validation_result,
                                                    quality.fact_check_result,
                                                    quality.source_count)]
    /\ UNCHANGED <<storeVars, requestVars, retrievalVars, writers, understanding, window, indexVars>>

NextQuality == CallConfidenceIndicators

SpecQuality == InitQuality /\ [][NextQuality]_vars

(***************************************************************************)
(* One call of QueryUnderstandingService.detect_follow_up                  *)
(***************************************************************************)
InitFollowUp ==
    /\ EmptyStore
    /\ InitRequest
    /\ IdleRetrieval
    /\ NoWriters
    /\ window = NoDict
    /\ IdleIndex
    /\ quality = NoDict
    /\ \E query \in FollowUpQueries, history \in UnderstandingHistories :
          understanding = [query |-> query,
                           conversation_history |-> history,
                           follow_up |-> NoDict]

CallDetectFollowUp ==
    /\ understanding.follow_up = NoDict
    /\ understanding' =
          [understanding EXCEPT !.follow_up =
              DetectFollowUpInfo(understanding.query,
                                 understanding.conversation_history)]
    /\ UNCHANGED <<storeVars, requestVars, retrievalVars, writers, quality, window, indexVars>>

NextFollowUp == CallDetectFollowUp

SpecFollowUp == InitFollowUp /\ [][NextFollowUp]_vars

(***************************************************************************)
(* One call of ConversationContextService.get_sliding_window_context.      *)
(* Contents are 3, 8 or 40 characters long (0, 2 or 10 tokens), the query   *)
(* 0, 9 or 50 (0, 2 or 12 tokens).                                          *)
(***************************************************************************)
WindowHistories ==
    {[i \in 1..Len(f) |-> [id |-> i, chars |-> f[i]]] :
        f \in UNION {[1..n -> {3, 8, 40}] : n \in 0..MaxWindowMessages}}

WindowBudgets ==
    {[given |-> FALSE]} \cup [given : {TRUE}, value : {0, 2, 10, 12, 14}]

InitWindow ==
    /\ EmptyStore
    /\ InitRequest
    /\ IdleRetrieval
    /\ NoWriters
    /\ understanding = NoDict
    /\ quality = NoDict
    /\ IdleIndex
    /\ \E messages \in WindowHistories, query_chars \in {0, 9, 50},
          max_tokens \in WindowBudgets :
          window = [messages |-> messages, query_chars |-> query_chars,
                    max_tokens |-> max_tokens, called |-> FALSE,
                    selected_messages |-> <<>>]

CallSlidingWindow ==
    /\ ~window.called
    /\ window' = [window EXCEPT
                    !.called = TRUE,
                    !.selected_messages =
                        GetSlidingWindowContext(window.messages, window.query_chars,
                                                window.max_tokens)]
    /\ UNCHANGED <<storeVars, requestVars, retrievalVars, writers,
                   understanding, quality, indexVars>>

SpecWindow == InitWindow /\ [][CallSlidingWindow]_vars

(***************************************************************************)
(* One call of validate_response on any answer, with 0 to 2 sources        *)
(***************************************************************************)
Answers ==
    [stripped_chars : {0, 9, 10, 40}, words : {2, 30}, unsourced_number : BOOLEAN,
     overlap : {0, 1, 2}, unsupported_negation : BOOLEAN, missing : {0, 1, 2},
     uncertainty : UncertaintyLevels]

ValidationIntents == {"comparison", "list_enumeration", "procedural", "factual_lookup"}

InitValidation ==
    /\ EmptyStore
    /\ InitRequest
    /\ IdleRetrieval
    /\ NoWriters
    /\ understanding = NoDict
    /\ window = NoDict
    /\ IdleIndex
    /\ \E answer \in Answers, n_sources \in 0..2, query_is_short \in BOOLEAN,
          query_intent \in ValidationIntents :
          quality = [response |-> answer, n_sources |-> n_sources,
                     query_is_short |-> query_is_short,
                     query_intent |-> query_intent,
                     validation |-> NoDict]

CallValidateResponse ==
    /\ quality.validation = NoDict
    /\ quality' = [quality EXCEPT !.validation =
                      ValidateResponse(quality.response, quality.n_sources,
                                       quality.query_is_short, quality.query_intent)]
    /\ UNCHANGED <<storeVars, requestVars, retrievalVars, writers,
                   understanding, window, indexVars>>

SpecValidation == InitValidation /\ [][CallValidateResponse]_vars

(***************************************************************************)
(* Properties of process_query, under Spec                                 *)
(***************************************************************************)
\* the positions of the request's calls of the given functions
CallsOf(fns) == {i \in 1..Len(calls) : calls[i].fn \in fns}

\* the positions of the request's calls of the LLM for the given purposes
LLMCallsFor(purposes) ==
    {i \in 1..Len(calls) : calls[i].fn = "generate_response" /\ calls[i].arg \in purposes}

StoreWriteCalls == {"create_conversation", "add_message"}

RetrievalCalls ==
    {"update_document_embeddings", "get_single_embedding", "search_similar_chunks",
     "hybrid_search", "rerank_results", "filter_by_dynamic_threshold",
     "diversify_results", "fallback_keyword_search"}

RankingCalls ==
    {"hybrid_search", "rerank_results", "filter_by_dynamic_threshold",
     "diversify_results"}

Returned == pc = "done"

IsErrorResponse(r) ==
    /\ r.query_type = "error"
    /\ r.sources = <<>>
    /\ ConfidenceIs(r.confidence_score, 0, 1)

Analyzed == req.analysis # NoDict

Range(s) == {s[i] : i \in 1..Len(s)}

IsPrefixOf(s, t) == Len(s) <= Len(t) /\ SubSeq(t, 1, Len(s)) = s

\* C1: once the analysis of a request says needs_clarification, the request
\* calls neither the LLM nor create_conversation nor add_message, and when
\* process_query takes the clarification return it returns the clarification
\* prompt with confidence 0.0 and no sources, whatever the history length.
C1_ClarificationMakesNoCall ==
    (Analyzed /\ req.analysis.needs_clarification) =>
        /\ CallsOf({"generate_response"} \cup StoreWriteCalls) = {}
        /\ heap = heap0
        /\ (Returned /\ req.throws = <<>>) =>
              /\ result.response = req.analysis.clarification_prompt
              /\ result.query_type = "clarification_needed"
              /\ result.sources = <<>>
              /\ ConfidenceIs(result.confidence_score, 0, 1)

C1_Witness ==
    /\ Returned
    /\ req.path = "clarification"
    /\ req.query.has_pronouns
    /\ Len(req.history) = 1
    /\ result.response = "unclear_reference"

\* C2 as stated: whenever a collaborator call of a returned request failed,
\* the response is the error response.
C2_EveryFailureGivesErrorResponse ==
    (Returned /\ (req.throws # <<>> \/ req.absorbed > 0)) => IsErrorResponse(result)

\* C2: process_query never raises; a failure that reaches the except clause of
\* process_query gives the error response; failures inside the try block of
\* _handle_document_query are answered by the keyword fallback instead
\* (confidence 0.3, no sources, the intent as query_type), and a failure of the
\* summary's LLM call changes nothing in the response.
C2_NeverRaisesErrorOrFallback ==
    /\ pc # "raised"
    /\ (Returned /\ req.throws # <<>>) =>
          \/ IsErrorResponse(result)
          \/ /\ Range(req.throws) \subseteq DocTryPoints \cup {"fallback"}
             /\ req.path = "fallback"
             /\ result.query_type = req.analysis.primary_intent
             /\ result.sources = <<>>
             /\ ConfidenceIs(result.confidence_score, 3, 10)
    /\ (Returned /\ req.throws = <<>>) => ~IsErrorResponse(result)

\* a failure of the fallback run from the handler of _handle_document_query
\* ended in the error response
C2_Witness ==
    /\ Returned
    /\ Len(req.throws) = 2
    /\ req.throws[2] = "fallback"
    /\ req.in_handler
    /\ IsErrorResponse(result)

\* C3 as stated: on the full-retrieval path the Response Quality scoring
\* (calculate_confidence_indicators) is called after the LLM call that produces
\* the answer and before process_query returns.
C3_QualityScoringAfterAnswer ==
    (Returned /\ req.path = "full" /\ ~IsErrorResponse(result)) =>
        \E i \in LLMCallsFor({"document"}) :
            \E j \in CallsOf({"calculate_confidence_indicators"}) : i < j

\* C4: in a request that needs no clarification and meets no exception, with no
\* documents or with intent general_inquiry or opinion_recommendation, no
\* embedding, search or retrieval call is made and the response has confidence
\* 0.7 and no sources.
C4_GeneralPathSkipsRetrieval ==
    (/\ Analyzed
     /\ ~req.analysis.needs_clarification
     /\ req.throws = <<>>
     /\ \/ req.documents = <<>>
        \/ req.analysis.primary_intent \in {"general_inquiry", "opinion_recommendation"})
    => /\ CallsOf(RetrievalCalls) = {}
       /\ Returned =>
             /\ ConfidenceIs(result.confidence_score, 7, 10)
             /\ result.sources = <<>>
             /\ LLMCallsFor({"general"}) # {}

C4_Witness ==
    /\ Returned
    /\ req.path = "general"
    /\ req.throws = <<>>
    /\ req.documents # <<>>
    /\ req.analysis.primary_intent = "opinion_recommendation"
    /\ ConfidenceIs(result.confidence_score, 7, 10)

\* _handle_document_query has returned to process_query
HandlerReturned == req.path \in {"full", "fallback"}

\* top holds at most 3 chunks of the documents, each sharing a word with the
\* query, and no chunk left out shares more words than one that is in
IsTopOverlap(top, query_words, documents) ==
    LET all == Range(AllChunks(documents))
        Overlap(c) == Cardinality(query_words \cap c.text.words)
    IN /\ Len(top) <= 3
       /\ \A i, j \in 1..Len(top) : top[i] = top[j] => i = j
       /\ \A i \in 1..Len(top) : top[i] \in all /\ Overlap(top[i]) > 0
       /\ \A c \in all \ Range(top) :
             Overlap(c) > 0 =>
                 /\ Len(top) = 3
                 /\ \A i \in 1..Len(top) : Overlap(top[i]) >= Overlap(c)

\* C5: whenever _handle_document_query returns after get_single_embedding gave
\* no embedding or the semantic search gave an empty list, it returns the
\* answer of the keyword fallback, built on at most the 3 chunks of highest
\* positive word overlap, with confidence 0.3 and no sources, and hybrid
\* scoring, re-ranking, threshold filtering and diversification were not run.
C5_FallbackOnNoEmbeddingOrEmptySearch ==
    (/\ HandlerReturned
     /\ \/ req.embedding = None
        \/ req.searched /\ req.semantic_results = <<>>)
    => /\ req.path = "fallback"
       /\ IsTopOverlap(req.results, req.query_words, req.documents)
       /\ ConfidenceIs(req.confidence, 3, 10)
       /\ req.sources = <<>>
       /\ CallsOf(RankingCalls) = {}
       /\ CallsOf({"fallback_keyword_search"}) # {}
       /\ (Returned /\ ~IsErrorResponse(result)) =>
             /\ ConfidenceIs(result.confidence_score, 3, 10)
             /\ result.sources = <<>>

\* the search came back empty and the fallback chose among four chunks that
\* share a word with the query
C5_Witness ==
    /\ Returned
    /\ req.searched
    /\ req.semantic_results = <<>>
    /\ req.path = "fallback"
    /\ Len(req.results) = 3
    /\ Len(RelevantChunks(req.query_words, req.documents)) = 4
    /\ ConfidenceIs(result.confidence_score, 3, 10)

\* the messages of the request's conversation when the request came in
MessagesBefore(conversation_id) ==
    IF heap0[conversation_id] = NoDict THEN <<>>
    ELSE heap0[conversation_id].messages

AnswerCalls ==
    RetrievalCalls \cup {"create_contextual_prompt"}

C7_AppendOnlyAndLastMessages ==
    /\ \A c \in ConvIds :
          heap0[c] # NoDict =>
              /\ heap[c] # NoDict
              /\ IsPrefixOf(heap0[c].messages, heap[c].messages)
    /\ (Analyzed /\ req.conversation_id \in cache /\ heap0[req.conversation_id] # NoDict)
       => LET stored == heap0[req.conversation_id].messages
              k == Min2(HistoryLimit, Len(stored))
          IN /\ Len(req.history) = k
             /\ \A i \in 1..k : req.history[i] = stored[Len(stored) - k + i]

\* 21 stored messages: the history read is the last 20, and two were appended
C7_Witness ==
    /\ Returned
    /\ req.conversation_id = 1
    /\ Len(heap0[1].messages) = 21
    /\ Len(req.history) = 20
    /\ req.history[1] = heap0[1].messages[2]
    /\ Len(heap[1].messages) = 23

DocumentIdsOf(documents) == {documents[k].id : k \in 1..Len(documents)}

\* C12 as stated: on the full-retrieval path every chunk of the final result
\* list and every returned source has the document_id of a document in the
\* organization's document list passed to the query.
C12_ResultsReferenceGivenDocuments ==
    (req.path = "full") =>
        /\ \A k \in 1..Len(req.results) :
              req.results[k].document_id \in DocumentIdsOf(req.documents)
        /\ \A k \in 1..Len(req.sources) :
              req.sources[k].document_id \in DocumentIdsOf(req.documents)

\* the results of hybrid_search, before re-ranking
HybridDone == pc = "doc_rerank"

SameChunk(a, b) ==
    a.document_id = b.document_id /\ a.chunk_index = b.chunk_index

\* the keyword score of the chunk of the candidate universe that r is, 0 when
\* the documents hold no such chunk
CandidateKeywordScore(r) ==
    LET all_chunks == AllChunks(req.documents)
        same == {k \in 1..Len(all_chunks) : SameChunk(all_chunks[k], r)}
    IN IF same = {} THEN 0
       ELSE KeywordScore(req.query_words, all_chunks[CHOOSE k \in same : TRUE])

\* C18: in the full-retrieval path each chunk of the semantic result set
\* gets hybrid_score = (1 - keyword_weight) * semantic_score + keyword_weight
\* * keyword_score, with the keyword score of that same chunk (same document
\* and chunk index) among the candidates; and a candidate is injected with
\* semantic_score 0 and hybrid_score = keyword_weight * keyword_score
\* exactly when it is absent from the semantic set and its keyword score is
\* at least 0.6.
C18_HybridUsesKeywordScoreOfSameChunk ==
    HybridDone =>
        LET semantic == req.semantic_results
            hybrid == req.results
            all_chunks == AllChunks(req.documents)
            w == req.params.keyword_weight
            InSemantic(c) == \E k \in 1..Len(semantic) : SameChunk(semantic[k], c)
            IsInjected(c) ==
                \E j \in (Len(semantic) + 1)..Len(hybrid) :
                    /\ SameChunk(hybrid[j], c)
                    /\ hybrid[j].semantic_score = 0
                    /\ hybrid[j].hybrid_score * 20 = w * CandidateKeywordScore(c)
        IN /\ \A k \in 1..Len(semantic) :
                /\ hybrid[k].keyword_score = CandidateKeywordScore(semantic[k])
                /\ hybrid[k].hybrid_score * 20 =
                       (20 - w) * semantic[k].similarity
                       + w * CandidateKeywordScore(semantic[k])
           /\ \A i \in 1..Len(all_chunks) :
                IsInjected(all_chunks[i]) <=>
                    /\ ~InSemantic(all_chunks[i])
                    /\ CandidateKeywordScore(all_chunks[i]) * 10 >= 6 * Unit

NoChunkTwice(results) ==
    \A j, k \in 1..Len(results) : SameChunk(results[j], results[k]) => j = k

\* C25: in the full-retrieval path no chunk (same document_id and
\* chunk_index) appears more than once in the hybrid result list, nor in
\* the final results from which the context of the LLM is prepared.
C25_NoChunkTwice ==
    /\ HybridDone => NoChunkTwice(req.results)
    /\ (req.path = "full") => NoChunkTwice(req.results)

\* C26: the confidence_score process_query returns is in [0, 1] on every
\* path: clarification, error, general, fallback and full retrieval.
C26_ConfidenceInUnitInterval ==
    (result # NoDict) =>
        /\ result.confidence_score.den > 0
        /\ 0 <= result.confidence_score.num
        /\ result.confidence_score.num <= result.confidence_score.den

\* the messages of the current request in the cached conversations
OwnMessages(c) ==
    {k \in 1..Len(heap[c].messages) : heap[c].messages[k].id[1] = nreq}

\* C27: a request changes the conversation all-or-nothing: when process_query
\* returns the error response no cached conversation holds a message of
\* that request, and a stored user message of the request is immediately
\* followed by the assistant message of the same request.
C27_AllOrNothing ==
    (result # NoDict) =>
        \A c \in cache :
            /\ result.query_type = "error" => OwnMessages(c) = {}
            /\ \A k \in OwnMessages(c) :
                  heap[c].messages[k].role = "user" =>
                      /\ k < Len(heap[c].messages)
                      /\ heap[c].messages[k + 1].id = <<nreq, 2>>

\* the request named a conversation the store does not hold, and was not
\* answered with a clarification prompt
UnknownConversation ==
    /\ result # NoDict
    /\ req.given_id # NoId
    /\ req.given_id \notin cache
    /\ req.path # "clarification"

OracleCalls ==
    {"generate_response", "get_single_embedding", "update_document_embeddings",
     "search_similar_chunks", "create_contextual_prompt"}

\* C28: process_query with a conversation_id the store does not hold, and
\* no clarification needed, returns the error response without creating a
\* conversation, without appending a message and without calling the LLM
\* or the embedding service.
C28_UnknownConversationGivesError ==
    UnknownConversation =>
        /\ result.query_type = "error"
        /\ result.confidence_score = Confidence(0, 1)
        /\ result.sources = <<>>
        /\ result.conversation_id = req.given_id
        /\ heap = heap0
        /\ \A i \in 1..Len(calls) :
              /\ calls[i].fn \notin OracleCalls
              /\ calls[i].fn # "create_conversation"
              /\ calls[i].fn = "add_message" => calls[i].arg = "not found"

\* add_message was reached and raised for the unknown conversation
C28_Witness ==
    /\ UnknownConversation
    /\ req.throws = <<"add_user">>
    /\ result.query_type = "error"
    /\ \E i \in 1..Len(calls) : calls[i] = Call("add_message", "not found")

(***************************************************************************)
(* Properties of concurrent add_message calls, under SpecStore             *)
(***************************************************************************)
WritersDone == \A w \in Writers : writers[w].pc = "done"

TokensOf(messages) == SumSeq([i \in 1..Len(messages) |-> messages[i].token_count])

\* the dict holds both threads' messages and its two counters agree with them
IsConsistent(conversation) ==
    /\ \A w \in Writers : writers[w].message \in Range(conversation.messages)
    /\ conversation.message_count = Len(conversation.messages)
    /\ conversation.total_tokens = TokensOf(conversation.messages)

\* C8 as stated: after two concurrent add_message calls on one conversation,
\* both messages are stored, message_count is the number of stored messages
\* and total_tokens the sum of their token_count, in the cache and in the file.
C8_ConcurrentAppendsSerialized ==
    WritersDone => IsConsistent(heap[1]) /\ IsConsistent(files[1])

(***************************************************************************)
(* Properties of the pure retrieval functions, under SpecRetrieval         *)
(***************************************************************************)
IsDiversifyCall == retrievalOutput.op = "diversify_results"
IsFilterCall == retrievalOutput.op = "filter_by_dynamic_threshold"

OfDocument(results, d) ==
    LET From(r) == r.document_id = d IN SelectSeq(results, From)

\* out is made of elements of inp, in the order they have in inp
IsSubsequenceOf(out, inp) ==
    /\ \A i \in 1..Len(out) :
        /\ out[i].chunk_index \in 1..Len(inp)
        /\ out[i] = inp[out[i].chunk_index]
    /\ \A i \in 1..Len(out), j \in 1..Len(out) :
        i < j => out[i].chunk_index < out[j].chunk_index

\* C9: for every input list and every max_per_document >= 1, the output of
\* diversify_results holds at most max_per_document chunks of any one
\* document, is an order-preserving subsequence of the input, and keeps of
\* each document exactly its first min(count, max_per_document) chunks.
C9_DiversifyCapsEachDocument ==
    IsDiversifyCall =>
        LET out == retrievalOutput.value
            m == retrievalOutput.max_per_document
        IN /\ \A d \in DocIds : Len(OfDocument(out, d)) <= m
           /\ IsSubsequenceOf(out, retrievalInput)
           /\ \A d \in DocIds :
                OfDocument(out, d) = Take(OfDocument(retrievalInput, d), m)

\* a call with the default cap on a list holding more chunks of one document
\* than the cap, so that a chunk is dropped
C9_Witness ==
    /\ IsDiversifyCall
    /\ retrievalOutput.max_per_document = DefaultMaxPerDocument
    /\ Len(OfDocument(retrievalInput, "d1")) > DefaultMaxPerDocument
    /\ Len(retrievalOutput.value) < Len(retrievalInput)

NumberReaching(results, base_threshold, query_analysis) ==
    LET thr == DynamicThreshold(results, base_threshold, query_analysis)
    IN Cardinality({i \in 1..Len(results) : ReachesThreshold(results[i], thr)})

\* C10: for every result list of length >= 3, every base_threshold and every
\* complexity analysis, filter_by_dynamic_threshold returns at least 3
\* results; when fewer than 3 results reach the computed threshold it returns
\* exactly the first 3 elements of the input list.
C10_FilterKeepsAtLeastThree ==
    (IsFilterCall /\ Len(retrievalInput) >= 3) =>
        /\ Len(retrievalOutput.value) >= 3
        /\ NumberReaching(retrievalInput, retrievalOutput.base_threshold,
                          retrievalOutput.query_analysis) < 3
            => retrievalOutput.value = SubSeq(retrievalInput, 1, 3)

\* a list of more than 3 results of which fewer than 3 reach the threshold,
\* one of them placed after the first three
C10_Witness ==
    /\ IsFilterCall
    /\ Len(retrievalInput) > 3
    /\ NumberReaching(retrievalInput, retrievalOutput.base_threshold,
                      retrievalOutput.query_analysis) \in 1..2
    /\ ReachesThreshold(retrievalInput[4],
            DynamicThreshold(retrievalInput, retrievalOutput.base_threshold,
                             retrievalOutput.query_analysis))
    /\ retrievalOutput.value = SubSeq(retrievalInput, 1, 3)

\* C11 as stated: for every non-empty result list, every base_threshold and
\* every complexity analysis, filter_by_dynamic_threshold returns a non-empty
\* list.
C11_FilterNeverReturnsEmpty ==
    (IsFilterCall /\ retrievalInput # <<>>) => retrievalOutput.value # <<>>

(***************************************************************************)
(* Properties of analyze_query, under SpecUnderstanding                    *)
(***************************************************************************)
AnalysesMade == understanding.analyses

\* every field of the record but timestamp
SameButTimestamp(a, b) ==
    /\ a.original_query = b.original_query
    /\ a.intent = b.intent
    /\ a.multi_document = b.multi_document
    /\ a.follow_up = b.follow_up
    /\ a.ambiguity = b.ambiguity
    /\ a.needs_clarification = b.needs_clarification
    /\ a.clarification_prompt = b.clarification_prompt

HasFinding(ambiguity_info, type) ==
    \E k \in 1..Len(ambiguity_info.ambiguities) :
        ambiguity_info.ambiguities[k].type = type

\* C14: detect_ambiguity sets needs_clarification exactly when a recorded
\* ambiguity has severity high; only unclear_reference (a pronoun with fewer
\* than two messages of history) is recorded high; a query of fewer than
\* three words with no history and no pronoun is recorded too_brief with
\* severity medium and needs no clarification.
C14_ClarificationOnlyOnHighSeverity ==
    \A i \in 1..Len(AnalysesMade) :
        LET info == AnalysesMade[i].ambiguity
            query == understanding.query
            history == understanding.conversation_history
            n == Len(info.ambiguities)
        IN /\ info.needs_clarification <=>
                 \E k \in 1..n : info.ambiguities[k].severity = "high"
           /\ \A k \in 1..n :
                 info.ambiguities[k].severity = "high" =>
                     info.ambiguities[k].type = "unclear_reference"
           /\ HasFinding(info, "unclear_reference") <=>
                 (query.has_pronouns /\ Len(history) < 2)
           /\ (query.words < 3 /\ history = <<>> /\ ~query.has_pronouns) =>
                 /\ \E k \in 1..n :
                       info.ambiguities[k] = Ambiguity("too_brief", "medium")
                 /\ ~info.needs_clarification

C14_Witness ==
    /\ Len(AnalysesMade) > 0
    /\ understanding.query.words < 3
    /\ understanding.conversation_history = <<>>
    /\ ~understanding.query.has_pronouns
    /\ HasFinding(AnalysesMade[1].ambiguity, "too_brief")
    /\ ~AnalysesMade[1].needs_clarification

\* the threshold C19 states, times 1000 * n for a list of n results: the
\* first stage times 10 * n, then the scaling by 90, 110 or 100 hundredths
StatedThreshold1000n(results, base_threshold, query_analysis) ==
    LET n == Len(results)
        top == MaxSeq(Scores(results))
        sum == SumSeq(Scores(results))
        stage1 == CASE 10 * top > 8 * Unit -> Max2(10 * n * base_threshold, 8 * sum)
                    [] 10 * top > 6 * Unit /\ 10 * top <= 8 * Unit ->
                           10 * n * base_threshold
                    [] OTHER -> Min2(10 * n * base_threshold, 7 * n * top)
        scale == CASE query_analysis.complexity_level = "high" -> 90
                   [] query_analysis.complexity_level = "low"
                      /\ query_analysis.is_specific -> 110
                   [] OTHER -> 100
    IN stage1 * scale

\* C19: filter_by_dynamic_threshold uses threshold = max(base, 0.8 * avg)
\* when the maximum score is > 0.8, base when it is in (0.6, 0.8] and
\* min(base, 0.7 * max) otherwise, times 0.9 for high complexity or 1.1 for
\* low complexity with is_specific; it returns the results that reach this
\* threshold, or the first 3 results when fewer than 3 of at least 3 reach
\* it, and the output is an order-preserving subsequence of the input.
C19_FilterUsesStatedThreshold ==
    (IsFilterCall /\ retrievalInput # <<>>) =>
        LET inp == retrievalInput
            out == retrievalOutput.value
            t == StatedThreshold1000n(inp, retrievalOutput.base_threshold,
                                      retrievalOutput.query_analysis)
            Reaches(r) == r.similarity * 1000 * Len(inp) >= t
            reaching == SelectSeq(inp, Reaches)
        IN /\ IsSubsequenceOf(out, inp)
           /\ \/ out = reaching
              \/ /\ Len(reaching) < 3
                 /\ Len(inp) >= 3
                 /\ out = SubSeq(inp, 1, 3)
           /\ \A i \in 1..Len(out) : Reaches(out[i]) \/ out[i].chunk_index <= 3

\* a call on a list whose maximum is exactly 0.80: the base threshold 0.35
\* stays in force and the result of 0.35 is kept, which 0.8 * avg would drop
C19_Witness ==
    /\ IsFilterCall
    /\ Len(retrievalInput) = 2
    /\ MaxSeq(Scores(retrievalInput)) = 11520
    /\ retrievalOutput.base_threshold = 5040
    /\ retrievalOutput.query_analysis.complexity_level = "medium"
    /\ retrievalOutput.value = retrievalInput
    /\ \E i \in 1..2 : retrievalInput[i].similarity = 5040

(***************************************************************************)
(* Properties of the ranking functions, under SpecRanking                  *)
(***************************************************************************)
IsParametersCall == retrievalOutput.op = "calculate_adaptive_parameters"
IsHybridCall == retrievalOutput.op = "hybrid_search"
IsRerankCall == retrievalOutput.op = "rerank_results"

BaseTriple(level) ==
    CASE level = "high" -> <<15, (35 * Unit) \div 100, 6>>
      [] level = "medium" -> <<8, (40 * Unit) \div 100, 5>>
      [] level = "low" -> <<5, (50 * Unit) \div 100, 4>>

\* C17: for every query, calculate_adaptive_parameters on the analysis of
\* analyze_query_complexity gives 3 <= top_k <= 15 and 0 <= keyword_weight
\* <= 1, and the base triple of the complexity level (high 15, 0.35, 0.30;
\* medium 8, 0.40, 0.25; low 5, 0.50, 0.20) with top_k raised by 3 for a
\* comparison and by 2 for a multipart query, each capped at 15, and the
\* threshold raised by 0.1 for a specific query.
C17_AdaptiveParametersInRange ==
    IsParametersCall =>
        LET flags == retrievalInput.flags
            params == retrievalOutput.value
            base == BaseTriple(retrievalOutput.query_analysis.complexity_level)
            after_comparison ==
                IF flags.is_comparison
                THEN (IF base[1] + 3 > 15 THEN 15 ELSE base[1] + 3) ELSE base[1]
            after_multipart ==
                IF flags.is_multipart
                THEN (IF after_comparison + 2 > 15 THEN 15 ELSE after_comparison + 2)
                ELSE after_comparison
        IN /\ 3 <= params.top_k /\ params.top_k <= 15
           /\ 0 <= params.keyword_weight /\ params.keyword_weight <= 20
           /\ params.top_k = after_multipart
           /\ params.similarity_threshold =
                 base[2] + (IF flags.is_specific THEN Unit \div 10 ELSE 0)
           /\ params.keyword_weight = base[3]

\* a comparison, multipart and specific query of high complexity: top_k
\* stays at the cap and the threshold is 0.45
C17_Witness ==
    /\ IsParametersCall
    /\ retrievalInput.flags.is_comparison
    /\ retrievalInput.flags.is_multipart
    /\ retrievalInput.flags.is_specific
    /\ retrievalOutput.query_analysis.complexity_level = "high"
    /\ retrievalOutput.value.top_k = 15
    /\ retrievalOutput.value.similarity_threshold = 6480

\* the final score C20 states, before the cap
StatedFinalScore(r, is_comparison) ==
    r.similarity
    + (IF 1 \in r.pages THEN (5 * Unit) \div 100 ELSE 0)
    + (CASE r.text.wc < 20 -> 0 - (10 * Unit) \div 100
         [] r.text.wc >= 50 /\ r.text.wc <= 300 -> (3 * Unit) \div 100
         [] OTHER -> 0)
    + (IF is_comparison /\ r.text.comparative THEN (5 * Unit) \div 100 ELSE 0)

\* C20: rerank_results returns a permutation of its input in which every
\* final_score is at most 1.0, similarity equals final_score and the results
\* are in non-increasing order of final_score; final_score is the hybrid
\* score + 0.05 for a chunk on page 1, + 0.03 for a word count in [50, 300]
\* or - 0.10 for a word count below 20, + 0.05 for a comparison query and a
\* text with comparative vocabulary.
C20_RerankSortsByFinalScore ==
    IsRerankCall =>
        LET inp == retrievalInput.results
            out == retrievalOutput.value
            stated(r) == StatedFinalScore(r, retrievalInput.query_analysis.is_comparison)
        IN /\ Len(out) = Len(inp)
           /\ \A i \in 1..Len(inp) : \E j \in 1..Len(out) : out[j].chunk_index = i
           /\ \A j \in 1..Len(out) :
                LET r == inp[out[j].chunk_index]
                IN /\ out[j].text = r.text
                   /\ out[j].pages = r.pages
                   /\ out[j].document_id = r.document_id
                   /\ out[j].final_score <= Unit
                   /\ out[j].final_score =
                         (IF stated(r) > Unit THEN Unit ELSE stated(r))
                   /\ out[j].similarity = out[j].final_score
           /\ \A j \in 1..(Len(out) - 1) : out[j].final_score >= out[j + 1].final_score

\* two results given in increasing order of final score, the first one
\* penalised and the second one capped at 1.0: the output swaps them
C20_Witness ==
    /\ IsRerankCall
    /\ Len(retrievalOutput.value) = 2
    /\ retrievalOutput.value[1].chunk_index = 2
    /\ retrievalOutput.value[1].final_score = Unit
    /\ retrievalInput.results[2].similarity < Unit
    /\ retrievalOutput.value[2].final_score < retrievalInput.results[1].similarity

(***************************************************************************)
(* Properties of calculate_confidence_indicators, under SpecQuality        *)
(***************************************************************************)
IndicatorsMade == quality.result # NoDict

\* C16: calculate_confidence_indicators computes overall = 0.35 * retrieval
\* + 0.25 * validation quality_score + 0.30 * fact-check confidence + 0.10 *
\* min(source_count / 5, 1) and maps it with inclusive lower bounds: high
\* from 0.80, medium from 0.60, low from 0.40, very_low below; exactly 0.80,
\* 0.60 and 0.40 map to high, medium and low.
C16_ConfidenceLevelsInclusive ==
    IndicatorsMade =>
        LET overall == quality.result.overall_confidence
            level == quality.result.level
            fifths == IF quality.source_count > 5 THEN 5 ELSE quality.source_count
        IN /\ ("quality_score" \in DOMAIN quality.validation_result
               /\ "confidence" \in DOMAIN quality.fact_check_result) =>
                  overall * 100 =
                      35 * quality.retrieval_confidence
                      + 25 * quality.validation_result.quality_score
                      + 30 * quality.fact_check_result.confidence
                      + 2 * fifths * Unit
           /\ level = "high" <=> overall * 100 >= 80 * Unit
           /\ level = "medium" <=>
                 (overall * 100 >= 60 * Unit /\ overall * 100 < 80 * Unit)
           /\ level = "low" <=>
                 (overall * 100 >= 40 * Unit /\ overall * 100 < 60 * Unit)
           /\ level = "very_low" <=> overall * 100 < 40 * Unit

\* a call whose composite is exactly 0.80, from four nonzero components
C16_Witness ==
    /\ IndicatorsMade
    /\ quality.result.overall_confidence * 100 = 80 * Unit
    /\ quality.result.level = "high"
    /\ quality.source_count = 4
    /\ "quality_score" \in DOMAIN quality.validation_result
    /\ "confidence" \in DOMAIN quality.fact_check_result

(***************************************************************************)
(* Properties of detect_follow_up, under SpecFollowUp                      *)
(***************************************************************************)
FollowUpMade == understanding.follow_up # NoDict

\* C21: detect_follow_up returns is_follow_up false with confidence 0.0 for
\* an empty history; for a non-empty one is_follow_up holds exactly when the
\* query has a continuation phrase, or a pronoun and fewer than 5 words, or
\* a '?' without a question word at its start; reference_type is non-null
\* exactly when is_follow_up, chosen in the order pronoun_reference,
\* explicit_continuation, implicit_continuation; confidence is 0.9, 0.8 or
\* 0.6 by the first of the three rules that fired, 0.0 when none did.
C21_FollowUpRules ==
    FollowUpMade =>
        LET q == understanding.query
            out == understanding.follow_up
            explicit == q.has_follow_up_words
            short_pronoun == q.has_pronouns /\ q.words < 5
            incomplete == q.question_marks > 0 /\ ~q.starts_with_question
        IN IF understanding.conversation_history = <<>>
           THEN ~out.is_follow_up /\ out.confidence = 0
           ELSE /\ out.is_follow_up <=> (explicit \/ short_pronoun \/ incomplete)
                /\ (out.reference_type # None) <=> out.is_follow_up
                /\ out.is_follow_up =>
                      out.reference_type =
                          (CASE q.has_pronouns -> "pronoun_reference"
                             [] ~q.has_pronouns /\ explicit -> "explicit_continuation"
                             [] OTHER -> "implicit_continuation")
                /\ out.confidence * 10 =
                      (CASE explicit -> 9 * Unit
                         [] ~explicit /\ short_pronoun -> 8 * Unit
                         [] ~explicit /\ ~short_pronoun /\ incomplete -> 6 * Unit
                         [] OTHER -> 0)

\* "what about it?" after one exchange: a continuation phrase and a pronoun,
\* tagged pronoun_reference with confidence 0.9
C21_Witness ==
    /\ FollowUpMade
    /\ Len(understanding.conversation_history) = 2
    /\ understanding.query.has_follow_up_words
    /\ understanding.query.has_pronouns
    /\ understanding.query.starts_with_question
    /\ understanding.follow_up.is_follow_up
    /\ understanding.follow_up.reference_type = "pronoun_reference"
    /\ understanding.follow_up.confidence * 10 = 9 * Unit

(***************************************************************************)
(* Properties of get_sliding_window_context, under SpecWindow              *)
(***************************************************************************)
WindowTokens(messages) ==
    SumSeq([i \in 1..Len(messages) |-> messages[i].chars \div 4])

\* out is the last Len(out) messages of messages
IsSuffixOf(out, messages) ==
    /\ Len(out) <= Len(messages)
    /\ out = SubSeq(messages, Len(messages) - Len(out) + 1, Len(messages))

WindowBudget ==
    IF window.max_tokens.given THEN window.max_tokens.value ELSE 4000

\* the suffix is the whole history, or the next older message does not fit
WindowIsMaximal ==
    LET out == window.selected_messages
        next == window.messages[Len(window.messages) - Len(out)]
    IN \/ out = window.messages
       \/ window.query_chars \div 4 + WindowTokens(out) + next.chars \div 4
             > WindowBudget

\* C22 as stated: get_sliding_window_context returns a contiguous suffix of
\* the history in original order such that the estimated tokens of the query
\* plus all selected messages do not exceed max_tokens, and the suffix is
\* maximal.
C22_WindowWithinBudget ==
    window.called =>
        /\ IsSuffixOf(window.selected_messages, window.messages)
        /\ window.query_chars \div 4 + WindowTokens(window.selected_messages)
              <= WindowBudget
        /\ WindowIsMaximal

\* C22, amended: get_sliding_window_context returns a contiguous suffix of
\* the history in original order, maximal in that it is the whole history or
\* the next older message would take the estimate over max_tokens; the
\* estimate of the query plus the selected messages does not exceed
\* max_tokens when the query alone does not, and when the query alone
\* exceeds max_tokens no message is selected.
C22_WindowWithinBudgetIfQueryFits ==
    window.called =>
        /\ IsSuffixOf(window.selected_messages, window.messages)
        /\ WindowIsMaximal
        /\ IF window.query_chars \div 4 <= WindowBudget
           THEN window.query_chars \div 4 + WindowTokens(window.selected_messages)
                   <= WindowBudget
           ELSE window.selected_messages = <<>>

\* a history of three messages of which the oldest, 10 tokens, does not fit
\* while the two newer ones and the query fill the budget exactly
C22_Witness ==
    /\ window.called
    /\ Len(window.messages) = 3
    /\ window.messages[1].chars = 40
    /\ window.query_chars = 9
    /\ window.max_tokens = [given |-> TRUE, value |-> 14]
    /\ Len(window.selected_messages) = 2
    /\ WindowTokens(window.selected_messages) = 12

(***************************************************************************)
(* Properties of validate_response, under SpecValidation                   *)
(***************************************************************************)
Validated == quality.validation # NoDict

\* C23: validate_response returns quality_score in [0, 1]; for a stripped
\* answer shorter than 10 characters it returns is_valid false with
\* quality_score 0.1 and runs no other check; in every other case is_valid
\* is true.
C23_ValidationScoreInUnitInterval ==
    Validated =>
        LET v == quality.validation
        IN /\ 0 <= v.quality_score.num
           /\ v.quality_score.num <= v.quality_score.den
           /\ IF quality.response.stripped_chars < 10
              THEN /\ ~v.is_valid
                   /\ v.quality_score.num * 10 = v.quality_score.den
                   /\ DOMAIN v = {"is_valid", "issues", "quality_score"}
              ELSE v.is_valid

\* an answer of 9 characters, and the checks not run on it
C23_Witness ==
    /\ Validated
    /\ quality.response.stripped_chars = 9
    /\ quality.response.unsourced_number
    /\ ~quality.validation.is_valid
    /\ "grounding_score" \notin DOMAIN quality.validation

InSomeIndex(conv_id) ==
    \/ \E u \in IndexUsers : Listed(index.by_user[u], conv_id)
    \/ \E o \in IndexOrgs : Listed(index.by_org[o], conv_id)
    \/ \E d \in Days : Listed(index.by_date[d], conv_id)
    \/ index.metadata[conv_id] # NoDict

\* C29: once delete_conversation(id) has returned True, get_conversation(id)
\* returns None, the file of id is gone and id is in no index, whatever a
\* writer that read the conversation before the delete does afterwards.
C29_DeletedStaysDeleted ==
    \A conv_id \in log.deleted :
        /\ conv_id \notin cache
        /\ files[conv_id] = NoDict
        /\ ~InSomeIndex(conv_id)

\* no call is under way, and none has run, nor the date changed, while
\* another was under way
Sequential == Holding = {} /\ ~log.overlapped

\* C30: after any sequence of create_conversation, add_message,
\* update_conversation, delete_conversation and cleanup_old_conversations
\* calls, the date advancing between calls, every id listed under by_user,
\* by_org or by_date has metadata and is in the cache, and every cached
\* conversation is listed under exactly one by_date key, the date of its
\* updated_at.
C30_IndexConsistent ==
    Sequential =>
        /\ \A conv_id \in ConvIds :
              InSomeIndex(conv_id) =>
                  /\ index.metadata[conv_id] # NoDict
                  /\ conv_id \in cache
        /\ \A conv_id \in cache :
              {d \in Days : Listed(index.by_date[d], conv_id)}
                  = {heap[conv_id].updated_at}
====
